---------------------------- MODULE Spec2Model ----------------------------
(***************************************************************************)
(* A model of the ugly-duckling firmware kernel.                           *)
(*                                                                         *)
(*  - Boot: startDevice (Device.hpp), the RtcDriver ntp-sync task, the     *)
(*    state gates of ModuleStates and the plugin managers.                 *)
(*  - Configuration: ConfigurationFile and NvsConfiguration over a schema. *)
(*  - Telemetry: the telemetry task of initTelemetryPublishTask, its       *)
(*    request queue and the watchdog it restarts, over a clock of ticks.   *)
(*                                                                         *)
(* Each part has its own specification; the variables of the other parts   *)
(* stay at their initial value.                                            *)
(***************************************************************************)
EXTENDS Integers, Sequences, FiniteSets, TLC

VARIABLES
    \* ---- inputs of a boot (NVS device-config, device definition, clock)
    builtInPeripheralsSettings, \* deviceDefinition->getBuiltInPeripherals()
    peripheralsSettings,        \* settings->peripherals.get()
    functionsSettings,          \* settings->functions.get()
    timeSet,                    \* RtcDriver::isTimeSet() at construction
    \* ---- state gates (ModuleStates)
    networkReady, rtcInSync, kernelReady,
    \* ---- startDevice
    bootPc,                     \* position of the main task in startDevice
    idx,                        \* position of the running for-loop
    initState,                  \* InitState
    peripheralInstances,        \* PeripheralManager: names, insertion order
    functionInstances,          \* FunctionManager: names, insertion order
    peripheralsInitJson,        \* results accumulator of createPeripheral
    functionsInitJson,          \* results accumulator of createFunction
    telemetryStarted,           \* initTelemetryPublishTask has been called
    initPublished,              \* init documents handed to mqttRoot->publish
    initDelivery,               \* "none" | "pending" | "confirmed" | "timeout"
    \* ---- RtcDriver ntp-sync task
    ntpPc,                      \* position of the ntp-sync task
    \* ---- configuration store (ConfigurationFile or NvsConfiguration)
    kind,                       \* "file" | "nvs"
    schema,                     \* ConfigurationSection: property -> value
    blob,                       \* the backend: the file, or the NVS key
    callbacks,                  \* ConfigurationFile::callbacks
    cfgPc,                      \* "new", then the store's last operation
    rawDoc,                     \* argument of the last update
    prevSchema,                 \* schema when the last update began
    invoked,                    \* callbacks invoked by the last update
    lastWrite,                  \* "none" | "ok" | "failed": its backend write
    \* ---- telemetry task, telemetryPublishQueue and watchdog
    telPc,                      \* position of the telemetry task
    sinceWake,                  \* ticks since task.markWakeTime()
    wait,                       \* ticks left of the running delay / pollIn
    pending,                    \* items in telemetryPublishQueue
    wdState,                    \* "Armed" | "Kicked" | "TimedOut"
    wdElapsed,                  \* ticks since the watchdog was (re)started
    aborted,                    \* esp_system_abort has been called
    \* ---- telemetry: what an observer of the task records
    iterTrace,                  \* calls returned in the running iteration
    completedTrace,             \* iterTrace of the last complete iteration
    cause,                      \* why the iteration began: start|timeout|request
    lastPeriod,                 \* ticks between the last two markWakeTime
    windowRequests,             \* requests since the queue was last polled empty
    served,                     \* requests taken by the last successful pollIn
    unservedAge,                \* ticks since the oldest request that no
                                \* publication has followed yet, or -1
    publishOk,                  \* the last telemetry publish succeeded
    sinceSuccess,               \* ticks since a telemetry publish succeeded
                                \* (or the watchdog was armed), capped
    \* ---- remote commands and the NVS namespace they manage
    retained,                   \* the broker's retained command, or NoMessage
    sessionSeen,                \* the retained message was delivered since
                                \* the device last started
    devState,                   \* "running" | "restarting" | "sleeping"
    store,                      \* NVS: key -> blob
    response,                   \* response document of the last command
    lastCmd,                    \* the command last handed to a handler
    handled,                    \* deliveries of the published command
    expected,                   \* key -> value of the last nvs/write command,
                                \* "removed" after a remove that answered
                                \* removed, or "unknown"
    opFailed,                   \* the last command's operation failed
    mutated,                    \* the last command changed the store
    updateStarted,              \* the last command started a firmware update
    wakeupTimer,                \* seconds of the armed wake-up timer, or -1
    \* ---- factory-reset switch
    wifi,                       \* WiFi credentials: "stored" | "erased"
    lastDuration,               \* event.timeSinceLastChange (ms), or -1
    switchAction,               \* what the last disengage event did
    \* ---- restart of the device over a configuration store
    beforeRestart,              \* the schema held when the device restarted
    \* ---- settings
    watchdogTimeout,            \* settings->watchdogTimeout.get(), in ticks
    \* ---- NvsStore::withPreferences
    nvsCalls,                   \* calls of withPreferences made so far
    nvsOpen,                    \* handles nvs_open opened and nobody closed
    nvsLast,                    \* what the last call of withPreferences did
    \* ---- publish-ota-r2: the bucket (one channel) and one run of main()
    r2Objects,                  \* objects <channel>/<version>/<name>
    r2AllManifests,             \* <channel>/all-manifests.json
    r2Latest,                   \* <channel>/latest.json
    otaPc,                      \* position of main()
    otaRuns,                    \* runs of main() started so far
    maxBuilds,                  \* config.maxBuildsPerChannel
    version,                    \* version of the build being published
    artifactFiles,              \* artifactFiles.sort()
    files,                      \* files uploaded so far
    buildManifest,              \* the build's manifest
    allManifests,               \* the list downloaded, then edited
    prunedManifests,            \* what pruneOldBuilds returned
    otaTrace                    \* what the run did to the bucket, in order

bootVars == <<builtInPeripheralsSettings, peripheralsSettings,
              functionsSettings, timeSet, networkReady, rtcInSync,
              kernelReady, bootPc, idx, initState, peripheralInstances,
              functionInstances, peripheralsInitJson, functionsInitJson,
              telemetryStarted, initPublished, initDelivery, ntpPc>>

cfgVars == <<kind, schema, blob, callbacks, cfgPc, rawDoc, prevSchema,
             invoked, lastWrite>>

telVars == <<telPc, sinceWake, wait, pending, wdState, wdElapsed, aborted,
             iterTrace, completedTrace, cause, lastPeriod, windowRequests,
             served, unservedAge, publishOk, sinceSuccess>>

cmdVars == <<retained, sessionSeen, devState, store, response, lastCmd,
             handled, expected, opFailed, mutated, updateStarted,
             wakeupTimer>>

swVars == <<wifi, lastDuration, switchAction>>

rsVars == <<beforeRestart>>

settingsVars == <<watchdogTimeout>>

nvsVars == <<nvsCalls, nvsOpen, nvsLast>>

otaVars == <<r2Objects, r2AllManifests, r2Latest, otaPc, otaRuns, maxBuilds,
             version, artifactFiles, files, buildManifest, allManifests,
             prunedManifests, otaTrace>>

vars == <<bootVars, cfgVars, telVars, cmdVars, swVars, rsVars, settingsVars, nvsVars,
            otaVars>>

\* What the actions of one part leave alone.
notBoot == <<cfgVars, telVars, cmdVars, swVars, rsVars, settingsVars, nvsVars,
            otaVars>>
notConfig == <<bootVars, telVars, cmdVars, swVars, rsVars, settingsVars, nvsVars,
            otaVars>>
notTelemetry == <<bootVars, cfgVars, cmdVars, swVars, rsVars, settingsVars, nvsVars,
            otaVars>>
notCommands == <<bootVars, cfgVars, telVars, swVars, rsVars, settingsVars, nvsVars,
            otaVars>>

---------------------------------------------------------------------------
(* Bounds of the model *)

\* longest user-configured peripherals / functions array
MaxEntries == 2
\* most observers registered with onUpdate
MaxCallbacks == 2
\* settings->publishInterval, in ticks
PublishInterval == 5
\* settings->watchdogTimeout, in ticks
WatchdogTimeout == 5
\* longest a telemetry publish call takes, in ticks
MaxPublish == 3
\* most telemetry requests counted between two polls
MaxRequests == 2

SeqsUpTo(S, n) == UNION { [1..k -> S] : k \in 0..n }

---------------------------------------------------------------------------
(* Plugin registry and managers *)

\* enum class InitState
Success == 0
PeripheralError == 1
FunctionError == 2

\* Types the device definition registers a factory for.
PeripheralFactories == {"valve"}
FunctionFactories == {"thermostat"}

\* A configuration entry {type, name, params}.  For a peripheral, params
\* is "good" or "bad" (the factory rejects it); for a thermostat it is
\* the name of its switch peripheral.
PeripheralEntries ==
    { [type |-> "valve", name |-> "a", params |-> "good"],
      [type |-> "valve", name |-> "b", params |-> "bad"],
      [type |-> "bogus", name |-> "a", params |-> "good"] }

FunctionEntries ==
    { [type |-> "thermostat", name |-> "t", params |-> "a"],
      [type |-> "bogus", name |-> "t", params |-> "a"] }

Range(s) == { s[i] : i \in DOMAIN s }

\* Thermostat factory: params.peripheral<IValve>(settings->switchPeripheral)
\* must resolve to an existing peripheral.
ThermostatFactoryOk(entry, peripherals) == entry.params \in Range(peripherals)

PeripheralFactoryOk(entry) == entry.params = "good"

\* createInstance: the reason of the failure, or "none".
CreateReason(entry, factories, instances, factoryOk) ==
    IF entry.type \notin factories THEN "UnknownType"
    ELSE IF entry.name \in Range(instances) THEN "DuplicateName"
    ELSE IF ~factoryOk THEN "FactoryError"
    ELSE "none"

Descriptor(entry, reason) ==
    [name |-> entry.name, type |-> entry.type, ok |-> (reason = "none"),
     reason |-> reason]

\* PeripheralManager::createPeripheral(entry, resultsAccumulator)
CreatePeripheralReason(entry) ==
    CreateReason(entry, PeripheralFactories, peripheralInstances,
                 PeripheralFactoryOk(entry))

\* FunctionManager::createFunction(entry, resultsAccumulator)
CreateFunctionReason(entry) ==
    CreateReason(entry, FunctionFactories, functionInstances,
                 ThermostatFactoryOk(entry, peripheralInstances))

---------------------------------------------------------------------------
(* State gates *)

\* StateSource::set(): the gate's value afterwards.
StateSourceSet(isSet) == TRUE

\* State::awaitSet(): the caller may pass.
AwaitSet(isSet) == isSet


---------------------------------------------------------------------------
(* Telemetry task, telemetry request queue and watchdog *)

\* debounceInterval = 500ms, in ticks of 250 ms
DebounceInterval == 2

\* Mutant: the queue is created with two slots.
QueueCapacity_Two == 1 + 1

\* CopyQueue<bool>("telemetry-publish", 1): the capacity of the queue
QueueCapacity == 1

Max(a, b) == IF a >= b THEN a ELSE b
Min(a, b) == IF a <= b THEN a ELSE b

\* Task::ticksUntil(time): the ticks left until `time` after the last
\* markWakeTime, none when that moment has passed.
TicksUntil(time, elapsed) == IF elapsed >= time THEN 0 ELSE time - elapsed

\* Mutant: the task does not wait between two publications.
DebounceDelay_None(elapsed) == 0

\* Task::delay(task.ticksUntil(debounceInterval))
DebounceDelay(elapsed) == TicksUntil(DebounceInterval, elapsed)

\* Mutant: pollIn waits for two publish intervals.
PollTimeoutTicks_TwoIntervals(elapsed) ==
    TicksUntil(PublishInterval + PublishInterval, elapsed)

\* task.ticksUntil(publishInterval - debounceInterval)
PollTimeoutTicks(elapsed) ==
    TicksUntil(PublishInterval - DebounceInterval, elapsed)

\* TelemetryPublisher::requestTelemetryPublishing: an offer to the queue,
\* dropped when the queue is full.
QueueOffer(n) == Min(n + 1, QueueCapacity)

\* Mutant: the task empties the queue after the publish.
PendingAfterPublish_Drained(n) == 0

\* mqttRoot->publish does not touch the queue.
PendingAfterPublish(n) == n

\* Mutant: the task goes on to the delay without restarting the watchdog.
AfterPublish_NoRestart == "delay"

\* The statement that follows the publish call.
AfterPublish == "restart"

\* Mutant: the expiry callback only logs.
WatchdogCallback_LogsOnly(state) == FALSE

\* The expiry callback of initWatchdog: it aborts on TimedOut.
WatchdogCallback(state) == state = "TimedOut"

\* Mutant: the watchdog is created without being started.
WatchdogStateAtCreation_Idle == "Idle"

\* initWatchdog: Watchdog("watchdog", timeout, true, callback) starts the
\* watchdog as it creates it.
WatchdogStateAtCreation == "Armed"

\* Watchdog::restart(): the time counted against the timeout afterwards.
WatchdogRestartElapsed(elapsed) == 0

TelIdle ==
    /\ watchdogTimeout = WatchdogTimeout
    /\ telPc = "off"
    /\ sinceWake = 0
    /\ wait = 0
    /\ pending = 0
    /\ wdState = WatchdogStateAtCreation
    /\ wdElapsed = 0
    /\ aborted = FALSE
    /\ iterTrace = <<>>
    /\ completedTrace = <<>>
    /\ cause = "start"
    /\ lastPeriod = -1
    /\ windowRequests = 0
    /\ served = 0
    /\ unservedAge = -1
    /\ publishOk = TRUE
    /\ sinceSuccess = 0

\* The process runs and the watchdog's deadline has not been reached.
Alive == ~aborted /\ wdElapsed < watchdogTimeout

observerVars == <<iterTrace, completedTrace, cause, lastPeriod,
                  windowRequests, served, unservedAge>>

pubVars == <<publishOk, sinceSuccess>>

\* The loop body begins: task.markWakeTime(), then the publish call.
BeginIteration(why) ==
    /\ telPc' = "publish"
    /\ lastPeriod' = IF telPc = "notStarted" THEN -1 ELSE sinceWake
    /\ sinceWake' = 0
    /\ wait' = 0
    /\ cause' = why
    /\ completedTrace' = IF telPc = "poll" THEN Append(iterTrace, "poll")
                         ELSE iterTrace
    /\ iterTrace' = <<>>
    /\ unservedAge' = -1

\* startDevice calls initTelemetryPublishTask: Task::loop starts the body.
TelemetryStart ==
    /\ Alive
    /\ telPc = "notStarted"
    /\ BeginIteration("start")
    /\ UNCHANGED <<pending, wdState, wdElapsed, aborted, windowRequests,
                   served>>
    /\ UNCHANGED pubVars
    /\ UNCHANGED notTelemetry

\* mqttRoot->publish("telemetry", ...) returns; the task drops its status.
PublishReturn ==
    /\ Alive
    /\ telPc = "publish"
    /\ \E ok \in BOOLEAN :
          /\ publishOk' = ok
          /\ sinceSuccess' = IF ok THEN 0 ELSE sinceSuccess
    /\ telPc' = AfterPublish
    /\ iterTrace' = Append(iterTrace, "publish")
    /\ pending' = PendingAfterPublish(pending)
    /\ UNCHANGED <<sinceWake, wait, wdState, wdElapsed, aborted,
                   completedTrace, cause, lastPeriod, windowRequests, served,
                   unservedAge>>
    /\ UNCHANGED notTelemetry

\* Mutant: the task restarts the watchdog only after a successful publish.
RestartsWatchdog_OnSuccess(ok) == ok

\* The task calls watchdog->restart() whatever the publish call returned.
RestartsWatchdog(ok) == TRUE

\* watchdog->restart(), then the task enters the debounce delay.
WatchdogRestart ==
    /\ Alive
    /\ telPc = "restart"
    /\ wdState' = IF RestartsWatchdog(publishOk) THEN "Kicked" ELSE wdState
    /\ wdElapsed' = IF RestartsWatchdog(publishOk)
                     THEN WatchdogRestartElapsed(wdElapsed) ELSE wdElapsed
    /\ iterTrace' = Append(iterTrace, "restart")
    /\ telPc' = "delay"
    /\ wait' = DebounceDelay(sinceWake)
    /\ UNCHANGED <<sinceWake, pending, aborted, completedTrace, cause,
                   lastPeriod, windowRequests, served, unservedAge>>
    /\ UNCHANGED pubVars
    /\ UNCHANGED notTelemetry

\* Task::delay returns; the task computes the timeout and enters pollIn.
DelayReturn ==
    /\ Alive
    /\ telPc = "delay"
    /\ wait = 0
    /\ iterTrace' = Append(iterTrace, "delay")
    /\ telPc' = "poll"
    /\ wait' = PollTimeoutTicks(sinceWake)
    /\ UNCHANGED <<sinceWake, pending, wdState, wdElapsed, aborted,
                   completedTrace, cause, lastPeriod, windowRequests, served,
                   unservedAge>>
    /\ UNCHANGED pubVars
    /\ UNCHANGED notTelemetry

\* pollIn returns with an item; Task::loop runs the body again.
PollReceive ==
    /\ Alive
    /\ telPc = "poll"
    /\ pending > 0
    /\ pending' = pending - 1
    /\ served' = windowRequests
    /\ windowRequests' = 0
    /\ BeginIteration("request")
    /\ UNCHANGED <<wdState, wdElapsed, aborted>>
    /\ UNCHANGED pubVars
    /\ UNCHANGED notTelemetry

\* pollIn times out on an empty queue; Task::loop runs the body again.
PollTimeout ==
    /\ Alive
    /\ telPc = "poll"
    /\ pending = 0
    /\ wait = 0
    /\ BeginIteration("timeout")
    /\ UNCHANGED <<pending, wdState, wdElapsed, aborted, windowRequests,
                   served>>
    /\ UNCHANGED pubVars
    /\ UNCHANGED notTelemetry

\* Another task (the switch handler, a peripheral) requests a publication.
RequestTelemetry ==
    /\ Alive
    /\ telPc # "off"
    /\ windowRequests < MaxRequests
    /\ pending' = QueueOffer(pending)
    /\ windowRequests' = windowRequests + 1
    /\ unservedAge' = IF unservedAge < 0 THEN 0 ELSE unservedAge
    /\ UNCHANGED <<telPc, sinceWake, wait, wdState, wdElapsed, aborted,
                   iterTrace, completedTrace, cause, lastPeriod, served>>
    /\ UNCHANGED pubVars
    /\ UNCHANGED notTelemetry

\* The task is blocked until time passes: in a publish that may take
\* longer, in a delay or a pollIn with ticks left; or it has not started.
TaskBlocked ==
    \/ telPc = "notStarted"
    \/ telPc = "publish" /\ sinceWake < MaxPublish
    \/ telPc = "delay" /\ wait > 0
    \/ telPc = "poll" /\ wait > 0 /\ pending = 0

\* One tick of the clock.
Tick ==
    /\ Alive
    /\ TaskBlocked
    /\ sinceWake' = IF telPc = "notStarted" THEN sinceWake ELSE sinceWake + 1
    /\ wait' = IF wait > 0 THEN wait - 1 ELSE 0
    /\ wdElapsed' = wdElapsed + 1
    /\ unservedAge' = IF unservedAge < 0 THEN -1 ELSE unservedAge + 1
    /\ sinceSuccess' = Min(sinceSuccess + 1, WatchdogTimeout + 1)
    /\ UNCHANGED publishOk
    /\ UNCHANGED <<telPc, pending, wdState, aborted, iterTrace,
                   completedTrace, cause, lastPeriod, windowRequests, served>>
    /\ UNCHANGED notTelemetry

\* The deadline passes without a restart: the watchdog times out and calls
\* its callback.
WatchdogExpire ==
    /\ ~aborted
    /\ wdState # "TimedOut"
    /\ wdElapsed >= watchdogTimeout
    /\ wdState' = "TimedOut"
    /\ aborted' = WatchdogCallback("TimedOut")
    /\ UNCHANGED <<telPc, sinceWake, wait, pending, wdElapsed>>
    /\ UNCHANGED observerVars
    /\ UNCHANGED pubVars
    /\ UNCHANGED notTelemetry

---------------------------------------------------------------------------
(* Configuration schema and stores *)

\* The properties of the schema (DeviceSettings) and a key it does not have.
Props == {"model", "sleepWhenIdle"}
Keys == Props \cup {"unknown"}

\* A property holds its declared default "d" or another value "x".
PropValues == {"d", "x"}
Absent == "absent"

\* A JSON object: each key holds a value or is absent.
Docs == [Keys -> PropValues \cup {Absent}]
EmptyDoc == [k \in Keys |-> Absent]

Defaults == [p \in Props |-> "d"]

\* Mutant: load resets the properties the document does not have.
Load_ResetsAbsent(s, json) ==
    [p \in Props |-> IF json[p] # Absent THEN json[p] ELSE Defaults[p]]

\* ConfigurationSection::load: overwrites the properties present in json.
Load(s, json) == [p \in Props |-> IF json[p] # Absent THEN json[p] ELSE s[p]]

\* ConfigurationSection::store: the total document of the schema.
StoreDoc(s) == [k \in Keys |-> IF k \in Props THEN s[k] ELSE Absent]

\* Backend contents: no file/key, one that cannot be read, an empty one,
\* one that does not parse, or a serialized JSON object.
Blob(form, doc) == [form |-> form, doc |-> doc]

\* The object a text that does not parse was cut from: {"model":"x"
CorruptDoc == [EmptyDoc EXCEPT !["model"] = "x"]

BackendContents ==
    { Blob(f, EmptyDoc) : f \in {"absent", "unreadable", "empty"} }
        \cup { Blob("corrupt", CorruptDoc) }
        \cup { Blob("json", d) : d \in Docs }

\* serializeJson / deserializeJson of an object
SerializeJson(json) == Blob("json", json)

\* The observers a client registers with onUpdate.
Observers == {"cb1", "cb2"}

CfgIdle ==
    /\ kind = "file"
    /\ schema = Defaults
    /\ blob = Blob("absent", EmptyDoc)
    /\ callbacks = <<>>
    /\ cfgPc = "off"
    /\ rawDoc = EmptyDoc
    /\ prevSchema = Defaults
    /\ invoked = <<>>
    /\ lastWrite = "none"

Live == cfgPc \in {"constructed", "updated", "registered", "reset"}

\* ---- ConfigurationFile

\* Mutant: the constructor tolerates a file that does not parse.
FileLoadThrows_Tolerant(b) == b.form = "unreadable"

\* The constructor throws: readAll has no value, or deserializeJson fails
\* with anything but EmptyInput.
FileLoadThrows(b) == b.form \in {"unreadable", "corrupt"}

\* The persist callback: the contents it writes to the file.
FilePersistContents(json) == SerializeJson(json)

\* Mutant: onUpdate puts the callback at the head of the list.
RegisterCallback_Front(cbs, cb) == <<cb>> \o cbs

\* onUpdate: callbacks.push_back(callback)
RegisterCallback(cbs, cb) == Append(cbs, cb)

\* Mutant: the persist callback is registered before the initial load.
CallbacksAtInitialLoad_PersistFirst(cbs) == RegisterCallback(cbs, "persist")

\* The callback list when the constructor issues its update(): the
\* constructor has not called onUpdate yet.
CallbacksAtInitialLoad(cbs) == cbs

\* The constructor: load with fallback (the update() of an existing file
\* walks the callbacks), then register the persist callback.
ConstructFile ==
    /\ cfgPc = "new"
    /\ kind = "file"
    /\ IF FileLoadThrows(blob)
       THEN \* throw ConfigurationException
            /\ cfgPc' = "thrown"
            /\ UNCHANGED <<schema, callbacks, blob, invoked, lastWrite>>
       ELSE LET atLoad == IF blob.form = "absent" THEN <<>>
                          ELSE CallbacksAtInitialLoad(callbacks)
                persists == "persist" \in Range(atLoad)
            IN  /\ schema' = IF blob.form = "absent" THEN schema
                             ELSE Load(schema, blob.doc)
                /\ invoked' = [i \in DOMAIN atLoad |->
                                  [cb |-> atLoad[i], doc |-> blob.doc]]
                /\ blob' = IF persists THEN FilePersistContents(blob.doc)
                           ELSE blob
                /\ lastWrite' = IF persists THEN "ok" ELSE lastWrite
                /\ callbacks' = RegisterCallback(callbacks, "persist")
                /\ cfgPc' = "constructed"
    /\ UNCHANGED <<kind, rawDoc, prevSchema>>
    /\ UNCHANGED notConfig

\* The document update() hands to a callback.
CallbackArgument(json, merged) == json

\* Mutant: the callbacks are walked last-registered first.
CallbackOrder_Reversed(cbs) == [i \in DOMAIN cbs |-> cbs[Len(cbs) + 1 - i]]

\* The order in which update() walks the callbacks.
CallbackOrder(cbs) == cbs

\* update(json): load, then the callbacks; the persist callback throws
\* when fs->writeAll fails.
UpdateFile ==
    /\ Live
    /\ kind = "file"
    /\ \E json \in Docs, writeOk \in BOOLEAN :
          LET order == CallbackOrder(callbacks)
              merged == Load(schema, json)
              arg == CallbackArgument(json, merged)
              persistAt == { i \in DOMAIN order : order[i] = "persist" }
              throwAt == IF writeOk \/ persistAt = {} THEN 0
                         ELSE CHOOSE i \in persistAt : \A j \in persistAt : i <= j
              ran == IF throwAt = 0 THEN order ELSE SubSeq(order, 1, throwAt)
          IN  /\ schema' = merged
              /\ prevSchema' = schema
              /\ rawDoc' = json
              /\ invoked' = [i \in DOMAIN ran |-> [cb |-> ran[i], doc |-> arg]]
              /\ blob' = IF writeOk /\ persistAt # {}
                         THEN FilePersistContents(arg) ELSE blob
              /\ lastWrite' = IF persistAt = {} THEN "none"
                              ELSE IF writeOk THEN "ok" ELSE "failed"
              /\ cfgPc' = IF throwAt = 0 THEN "updated" ELSE "thrown"
    /\ UNCHANGED <<kind, callbacks>>
    /\ UNCHANGED notConfig

\* onUpdate(callback)
OnUpdate ==
    /\ Live
    /\ kind = "file"
    /\ Len(callbacks) <= MaxCallbacks
    /\ \E cb \in Observers : callbacks' = RegisterCallback(callbacks, cb)
    /\ cfgPc' = "registered"
    /\ UNCHANGED <<kind, schema, blob, rawDoc, prevSchema, invoked,
                   lastWrite>>
    /\ UNCHANGED notConfig

\* Mutant: reset writes the defaults to the file.
BlobAfterReset_Persisted(b) == SerializeJson(StoreDoc(Defaults))

\* reset() only calls config->reset(); the file is not touched.
BlobAfterReset(b) == b

\* reset()
Reset ==
    /\ Live
    /\ kind = "file"
    /\ schema' = Defaults
    /\ blob' = BlobAfterReset(blob)
    /\ cfgPc' = "reset"
    /\ UNCHANGED <<kind, callbacks, rawDoc, prevSchema, invoked,
                   lastWrite>>
    /\ UNCHANGED notConfig

\* ---- NvsConfiguration

\* Mutant: getJson ignores the deserialization error.
GetJsonOk_IgnoresParseError(b) == b.form \in {"json", "corrupt"}

\* NvsStore::getJson succeeds for a key that holds parsable JSON.
GetJsonOk(b) == b.form = "json"

\* The constructor: load when getJson succeeds, defaults otherwise.
ConstructNvs ==
    /\ cfgPc = "new"
    /\ kind = "nvs"
    /\ schema' = IF GetJsonOk(blob) THEN Load(schema, blob.doc) ELSE schema
    /\ cfgPc' = "constructed"
    /\ UNCHANGED <<kind, blob, callbacks, rawDoc, prevSchema, invoked,
                   lastWrite>>
    /\ UNCHANGED notConfig

\* update(): the value handed to nvs->setJson.
NvsPersistContents(json) == SerializeJson(json)

\* Mutant: a failed setJson makes update throw.
NvsUpdateOutcome_Fatal(writeOk) == IF writeOk THEN "updated" ELSE "thrown"

\* update(): how it ends, given the result of setJson.
NvsUpdateOutcome(writeOk) == "updated"

\* update(json): load, then setJson; a failed write is logged.
UpdateNvs ==
    /\ Live
    /\ kind = "nvs"
    /\ \E json \in Docs, writeOk \in BOOLEAN :
          /\ schema' = Load(schema, json)
          /\ prevSchema' = schema
          /\ rawDoc' = json
          /\ blob' = IF writeOk THEN NvsPersistContents(json) ELSE blob
          /\ lastWrite' = IF writeOk THEN "ok" ELSE "failed"
          /\ cfgPc' = NvsUpdateOutcome(writeOk)
    /\ UNCHANGED <<kind, callbacks, invoked>>
    /\ UNCHANGED notConfig

\* ---- a restart of the device: the next boot constructs the store anew

NoRestart == [restarted |-> FALSE, schema |-> Defaults]

RsIdle == beforeRestart = NoRestart

\* The device restarts: the objects in memory are gone, the backend stays.
Restart ==
    /\ Live
    /\ lastWrite # "failed"
    /\ beforeRestart' = [restarted |-> TRUE, schema |-> schema]
    /\ schema' = Defaults
    /\ callbacks' = <<>>
    /\ cfgPc' = "new"
    /\ rawDoc' = EmptyDoc
    /\ prevSchema' = Defaults
    /\ invoked' = <<>>
    /\ lastWrite' = "none"
    /\ UNCHANGED <<kind, blob>>
    /\ UNCHANGED <<bootVars, telVars, cmdVars, swVars, settingsVars, nvsVars,
                   otaVars>>

\* An update in a run of updates that all succeeded so far.
UpdateFileAfterSuccess ==
    /\ lastWrite # "failed"
    /\ UpdateFile

UpdateNvsAfterSuccess ==
    /\ lastWrite # "failed"
    /\ UpdateNvs

---------------------------------------------------------------------------
(* NvsStore::withPreferences *)

\* Calls of withPreferences in one run of the model.
MaxCalls == 3

\* What nvs_open returns.
OpenResults == {"ESP_OK", "ESP_ERR_NVS_NOT_FOUND",
                "ESP_ERR_NVS_NOT_INITIALIZED", "ESP_ERR_NO_MEM"}

\* What the action returns.
ActionResults == {"ESP_OK", "ESP_ERR_NVS_NOT_FOUND",
                  "ESP_ERR_NVS_INVALID_HANDLE"}

\* `nvs_handle_t handle;` is not initialized, and nvs_open stores a handle
\* only when it succeeds: after a failure the variable holds whatever the
\* build left there.
HandleValues == 0..MaxCalls

\* The switch on err: ESP_ERR_NVS_NOT_FOUND returns, ESP_OK and the default
\* case break and reach action(handle).
ReachesAction(err) == err # "ESP_ERR_NVS_NOT_FOUND"

NoCall ==
    [called |-> FALSE, readOnly |-> FALSE, err |-> "ESP_OK", handle |-> 0,
     opened |-> FALSE, actionInvoked |-> FALSE, closes |-> 0,
     result |-> "ESP_OK"]

NvsIdle ==
    /\ nvsCalls = 0
    /\ nvsOpen = {}
    /\ nvsLast = NoCall

\* withPreferences(readOnly, action), from nvs_open to the return.
WithPreferences ==
    /\ nvsCalls < MaxCalls
    /\ \E readOnly \in BOOLEAN, err \in OpenResults,
          garbage \in HandleValues, actionResult \in ActionResults :
          LET opened == err = "ESP_OK"
              handle == IF opened THEN nvsCalls + 1 ELSE garbage
              afterOpen == IF opened THEN nvsOpen \cup {handle} ELSE nvsOpen
          IN  /\ nvsCalls' = nvsCalls + 1
              /\ IF ReachesAction(err)
                    THEN /\ nvsLast' =
                              [called |-> TRUE, readOnly |-> readOnly,
                               err |-> err, handle |-> handle,
                               opened |-> opened, actionInvoked |-> TRUE,
                               closes |-> 1, result |-> actionResult]
                         /\ nvsOpen' = afterOpen \ {handle}
                    ELSE /\ actionResult = "ESP_OK"
                         /\ nvsLast' =
                              [called |-> TRUE, readOnly |-> readOnly,
                               err |-> err, handle |-> handle,
                               opened |-> opened, actionInvoked |-> FALSE,
                               closes |-> 0, result |-> "ESP_ERR_NOT_FOUND"]
                         /\ nvsOpen' = afterOpen
    /\ UNCHANGED <<bootVars, cfgVars, telVars, cmdVars, swVars, rsVars,
                   settingsVars, otaVars>>

---------------------------------------------------------------------------
(* publish-ota-r2: one channel of the bucket and the runs of main() *)

\* Runs of main() in one run of the model.
MaxRuns == 3

\* Largest --max-builds tried; the option takes any number.
MaxBuildsOption == 2

\* Largest value of nowUtcIso(), in seconds.
MaxDate == 2

Versions == {"v1", "v2", "v3"}

Dates == 1..MaxDate

\* findFilesByExtensions(...).sort(): one or two artifacts.
ArtifactLists == {<<"fw.bin">>, <<"fw.bin", "fw.elf">>}

ManifestName == "manifest.json"

\* The key <channel>/<version>/<name>.
Key(v, name) == [version |-> v, name |-> name]

\* BuildManifest: version, date and the names of the files.
Manifest(v, date, fs) == [version |-> v, date |-> date, files |-> fs]

NoManifest == Manifest("none", 0, <<>>)

\* new Date(date).getTime()
GetTime(date) == date * 1000

\* r2ListPrefix(<channel>/<version>/)
ListPrefix(objects, v) == { o \in objects : o.version = v }

\* deleteVersionFromR2
DeleteVersion(objects, v) == objects \ ListPrefix(objects, v)

RECURSIVE DeleteVersions(_, _)
DeleteVersions(objects, ms) ==
    IF ms = <<>> THEN objects
    ELSE DeleteVersions(DeleteVersion(objects, Head(ms).version), Tail(ms))

\* allManifests.findIndex((m) => m.version === version), 0 when not found
FindIndex(ms, v) ==
    IF \E i \in 1..Len(ms) : ms[i].version = v
       THEN CHOOSE i \in 1..Len(ms) :
                /\ ms[i].version = v
                /\ \A j \in 1..(i - 1) : ms[j].version # v
       ELSE 0

\* allManifests.splice(existingIndex, 1)
Splice(ms, i) == SubSeq(ms, 1, i - 1) \o SubSeq(ms, i + 1, Len(ms))

\* Array.prototype.sort is stable: an element goes behind every element
\* that does not compare after it.
RECURSIVE InsertNewestFirst(_, _)
InsertNewestFirst(sorted, m) ==
    IF sorted = <<>> THEN <<m>>
    ELSE IF GetTime(m.date) - GetTime(Head(sorted).date) > 0
            THEN <<m>> \o sorted
            ELSE <<Head(sorted)>> \o InsertNewestFirst(Tail(sorted), m)

RECURSIVE SortFrom(_, _)
SortFrom(sorted, rest) ==
    IF rest = <<>> THEN sorted
    ELSE SortFrom(InsertNewestFirst(sorted, Head(rest)), Tail(rest))

\* Mutant: the list is left in the order it has.
SortNewestFirst_Unsorted(ms) == ms

\* [...manifests].sort((a, b) => new Date(b.date) - new Date(a.date))
SortNewestFirst(ms) == SortFrom(<<>>, ms)

\* sorted.slice(0, maxBuilds) and sorted.slice(maxBuilds)
Keep(sorted, n) == SubSeq(sorted, 1, n)
Remove(sorted, n) == SubSeq(sorted, n + 1, Len(sorted))

\* What pruneOldBuilds returns.
PruneKeeps(ms, n) ==
    IF Len(ms) <= n THEN ms ELSE Keep(SortNewestFirst(ms), n)

\* What pruneOldBuilds deletes.
PruneRemoves(ms, n) ==
    IF Len(ms) <= n THEN <<>> ELSE Remove(SortNewestFirst(ms), n)

OtaIdle ==
    /\ r2Objects = {}
    /\ r2AllManifests = <<>>
    /\ r2Latest = NoManifest
    /\ otaPc = "idle"
    /\ otaRuns = 0
    /\ maxBuilds = 0
    /\ version = "none"
    /\ artifactFiles = <<>>
    /\ files = <<>>
    /\ buildManifest = NoManifest
    /\ allManifests = <<>>
    /\ prunedManifests = <<>>
    /\ otaTrace = <<>>

notOta == <<bootVars, cfgVars, telVars, cmdVars, swVars, rsVars,
            settingsVars, nvsVars>>

OtaRunning ==
    otaPc \in {"artifacts", "prune", "allManifests", "latest"}

\* main() up to the upload of the artifacts: the options, the version, the
\* artifacts found, the download of all-manifests.json and the removal of
\* an earlier build of the same version.
StartRun ==
    /\ ~OtaRunning
    /\ otaRuns < MaxRuns
    /\ \E n \in 0..MaxBuildsOption, v \in Versions, fs \in ArtifactLists :
          LET existingIndex == FindIndex(r2AllManifests, v)
          IN  /\ maxBuilds' = n
              /\ version' = v
              /\ artifactFiles' = fs
              /\ IF existingIndex # 0
                    THEN /\ r2Objects' = DeleteVersion(r2Objects, v)
                         /\ allManifests' = Splice(r2AllManifests, existingIndex)
                         /\ otaTrace' = <<"deleteExisting">>
                    ELSE /\ r2Objects' = r2Objects
                         /\ allManifests' = r2AllManifests
                         /\ otaTrace' = <<>>
    /\ otaRuns' = otaRuns + 1
    /\ files' = <<>>
    /\ buildManifest' = NoManifest
    /\ prunedManifests' = <<>>
    /\ otaPc' = "artifacts"
    /\ UNCHANGED <<r2AllManifests, r2Latest>>
    /\ UNCHANGED notOta

\* One round of the loop over artifactFiles: uploadArtifact, files.push.
UploadArtifact ==
    /\ otaPc = "artifacts"
    /\ Len(files) < Len(artifactFiles)
    /\ LET fileName == artifactFiles[Len(files) + 1]
       IN  /\ r2Objects' = r2Objects \cup {Key(version, fileName)}
           /\ files' = Append(files, fileName)
    /\ otaTrace' = Append(otaTrace, "artifact")
    /\ UNCHANGED <<r2AllManifests, r2Latest, otaPc, otaRuns, maxBuilds,
                   version, artifactFiles, buildManifest, allManifests,
                   prunedManifests>>
    /\ UNCHANGED notOta

\* The build manifest is created, uploaded and put in front of the list.
UploadBuildManifest ==
    /\ otaPc = "artifacts"
    /\ Len(files) = Len(artifactFiles)
    /\ \E date \in Dates :
          LET m == Manifest(version, date, files)
          IN  /\ buildManifest' = m
              /\ allManifests' = <<m>> \o allManifests
    /\ r2Objects' = r2Objects \cup {Key(version, ManifestName)}
    /\ otaTrace' = Append(otaTrace, ManifestName)
    /\ otaPc' = "prune"
    /\ UNCHANGED <<r2AllManifests, r2Latest, otaRuns, maxBuilds, version,
                   artifactFiles, files, prunedManifests>>
    /\ UNCHANGED notOta

\* pruneOldBuilds(client, bucket, channel, allManifests, maxBuilds)
PruneOldBuilds ==
    /\ otaPc = "prune"
    /\ prunedManifests' = PruneKeeps(allManifests, maxBuilds)
    /\ r2Objects' =
          DeleteVersions(r2Objects, PruneRemoves(allManifests, maxBuilds))
    /\ otaTrace' = Append(otaTrace, "prune")
    /\ otaPc' = "allManifests"
    /\ UNCHANGED <<r2AllManifests, r2Latest, otaRuns, maxBuilds, version,
                   artifactFiles, files, buildManifest, allManifests>>
    /\ UNCHANGED notOta

\* uploadAllManifests(client, bucket, channel, prunedManifests)
UploadAllManifests ==
    /\ otaPc = "allManifests"
    /\ r2AllManifests' = prunedManifests
    /\ otaTrace' = Append(otaTrace, "all-manifests.json")
    /\ otaPc' = "latest"
    /\ UNCHANGED <<r2Objects, r2Latest, otaRuns, maxBuilds, version,
                   artifactFiles, files, buildManifest, allManifests,
                   prunedManifests>>
    /\ UNCHANGED notOta

\* uploadLatestManifest(client, bucket, channel, buildManifest); "Done."
UploadLatestManifest ==
    /\ otaPc = "latest"
    /\ r2Latest' = buildManifest
    /\ otaTrace' = Append(otaTrace, "latest.json")
    /\ otaPc' = "done"
    /\ UNCHANGED <<r2Objects, r2AllManifests, otaRuns, maxBuilds, version,
                   artifactFiles, files, buildManifest, allManifests,
                   prunedManifests>>
    /\ UNCHANGED notOta

\* A request to R2 throws: main() rejects and the process exits with 1.
\* The bucket stays as the run left it; what the process held is gone.
RunFails ==
    /\ OtaRunning
    /\ otaPc' = "failed"
    /\ maxBuilds' = 0
    /\ version' = "none"
    /\ artifactFiles' = <<>>
    /\ files' = <<>>
    /\ buildManifest' = NoManifest
    /\ allManifests' = <<>>
    /\ prunedManifests' = <<>>
    /\ otaTrace' = <<>>
    /\ UNCHANGED <<r2Objects, r2AllManifests, r2Latest, otaRuns>>
    /\ UNCHANGED notOta

---------------------------------------------------------------------------
(* Remote commands (registerBasicCommands, registerNvsCommands,
   registerHttpUpdateCommand) *)

\* A field the request document does not have, and one that is not a string.
Missing == "missing"
NotAString == "notAString"

CmdKeys == {Missing, "k1", "k2"}
CmdValues == {"v1", "v2"}
CmdUrls == {Missing, NotAString, "", "u"}

\* "duration": absent or not a number, or a number of seconds.
NoDuration == [numeric |-> FALSE, n |-> 0]
CmdDurations == {NoDuration, [numeric |-> TRUE, n |-> 3]}

Command(name, key, value, url, duration) ==
    [name |-> name, key |-> key, value |-> value, url |-> url,
     duration |-> duration]

NoMessage == Command("none", Missing, Missing, Missing, NoDuration)

Commands ==
    { Command("restart", Missing, Missing, Missing, NoDuration),
      Command("nvs/list", Missing, Missing, Missing, NoDuration) }
        \cup { Command("sleep", Missing, Missing, Missing, d) :
                 d \in CmdDurations }
        \cup { Command("nvs/read", k, Missing, Missing, NoDuration) :
                 k \in CmdKeys }
        \cup { Command("nvs/write", k, v, Missing, NoDuration) :
                 k \in CmdKeys, v \in CmdValues }
        \cup { Command("nvs/remove", k, Missing, Missing, NoDuration) :
                 k \in CmdKeys }
        \cup { Command("update", Missing, Missing, u, NoDuration) :
                 u \in CmdUrls }

\* request["key"].as<std::string>(): the string, or the JSON text of the
\* null variant when the field is absent.
AsString(field) == IF field = Missing THEN "null" ELSE field

\* request["duration"].as<int64_t>(): the number, or 0.
AsInt64(duration) == IF duration.numeric THEN duration.n ELSE 0

\* request["url"].is<std::string>()
IsString(field) == field \notin {Missing, NotAString}

\* The keys nvs/read, nvs/write and nvs/remove can name.
StoreKeys == { AsString(k) : k \in CmdKeys }

NvsAbsent == Blob("absent", Absent)
StoreContents == { NvsAbsent } \cup { SerializeJson(v) : v \in CmdValues }
EmptyStore == [k \in StoreKeys |-> NvsAbsent]

\* NvsStore::setJson: nvs_set_blob of the serialized value, then commit.
SetJson(st, key, value, writeOk) ==
    IF writeOk THEN [st EXCEPT ![key] = SerializeJson(value)] ELSE st

\* Mutant: remove reports success whatever nvs_erase_key returned.
RemoveOk_Always(exists, eraseOk) == TRUE

\* NvsStore::remove: nvs_erase_key returns ESP_OK only for a key that exists.
RemoveOk(exists, eraseOk) == exists /\ eraseOk

\* NvsStore::list: the keys of the namespace.
ListKeys(st) == { k \in StoreKeys : st[k] # NvsAbsent }

EmptyResponse ==
    [published |-> FALSE, key |-> Absent, value |-> Absent,
     error |-> Absent, failure |-> Absent, written |-> FALSE,
     removed |-> FALSE, success |-> FALSE, listed |-> FALSE, entries |-> {}]

\* The response document a handler that returns starts from.
NewResponse == [EmptyResponse EXCEPT !.published = TRUE]

CmdIdle ==
    /\ retained = NoMessage
    /\ sessionSeen = FALSE
    /\ devState = "running"
    /\ store = EmptyStore
    /\ response = EmptyResponse
    /\ lastCmd = NoMessage
    /\ handled = 0
    /\ expected = [k \in StoreKeys |-> "unknown"]
    /\ opFailed = FALSE
    /\ mutated = FALSE
    /\ updateStarted = FALSE
    /\ wakeupTimer = -1

SwIdle ==
    /\ wifi = "stored"
    /\ lastDuration = -1
    /\ switchAction = "none"

\* A client publishes a retained message to commands/<name>.
PublishCommand ==
    /\ retained = NoMessage
    /\ \E c \in Commands : retained' = c
    /\ sessionSeen' = FALSE
    /\ handled' = 0
    /\ lastCmd' = NoMessage
    /\ response' = EmptyResponse
    /\ opFailed' = FALSE
    /\ mutated' = FALSE
    /\ updateStarted' = FALSE
    /\ UNCHANGED <<devState, store, expected, wakeupTimer>>
    /\ UNCHANGED notCommands

\* Mutant: the retained message stays on the broker.
RetainedAfterReceipt_Kept(msg) == msg

\* The device deletes the retained message when it receives the command.
RetainedAfterReceipt(msg) == NoMessage

\* The broker hands the retained message to the running device, once per
\* session, and the handler registered for its name is called.
Deliver(name) ==
    /\ devState = "running"
    /\ retained # NoMessage
    /\ retained.name = name
    /\ ~sessionSeen
    /\ sessionSeen' = TRUE
    /\ retained' = RetainedAfterReceipt(retained)
    /\ lastCmd' = retained
    /\ handled' = Min(handled + 1, 2)
    /\ UNCHANGED notCommands

\* "restart": esp_restart(); the handler does not return.
HandleRestart ==
    /\ Deliver("restart")
    /\ devState' = "restarting"
    /\ response' = EmptyResponse
    /\ opFailed' = FALSE
    /\ mutated' = FALSE
    /\ UNCHANGED <<store, expected, updateStarted, wakeupTimer>>

\* "sleep": arms the wake-up timer and enters deep sleep.
HandleSleep ==
    /\ Deliver("sleep")
    /\ wakeupTimer' = AsInt64(retained.duration)
    /\ devState' = "sleeping"
    /\ response' = EmptyResponse
    /\ opFailed' = FALSE
    /\ mutated' = FALSE
    /\ UNCHANGED <<store, expected, updateStarted>>

HandleNvsList ==
    /\ Deliver("nvs/list")
    /\ response' = [NewResponse EXCEPT !.listed = TRUE,
                                       !.entries = ListKeys(store)]
    /\ opFailed' = FALSE
    /\ mutated' = FALSE
    /\ UNCHANGED <<devState, store, expected, updateStarted, wakeupTimer>>

HandleNvsRead ==
    /\ Deliver("nvs/read")
    /\ LET key == AsString(retained.key) IN
          /\ response' =
                IF GetJsonOk(store[key])
                THEN [NewResponse EXCEPT !.key = key,
                                         !.value = store[key].doc]
                ELSE [NewResponse EXCEPT !.key = key,
                                         !.error = "Key not found"]
          /\ opFailed' = ~GetJsonOk(store[key])
    /\ mutated' = FALSE
    /\ UNCHANGED <<devState, store, expected, updateStarted, wakeupTimer>>

\* The handler does not look at what setJson returns.
HandleNvsWrite ==
    /\ Deliver("nvs/write")
    /\ LET key == AsString(retained.key) IN
          \E writeOk \in BOOLEAN :
              /\ store' = SetJson(store, key, retained.value, writeOk)
              /\ response' = [NewResponse EXCEPT !.key = key,
                                                 !.written = TRUE]
              /\ opFailed' = ~writeOk
              /\ mutated' = (store' # store)
              /\ expected' = [expected EXCEPT ![key] = retained.value]
    /\ UNCHANGED <<devState, updateStarted, wakeupTimer>>

HandleNvsRemove ==
    /\ Deliver("nvs/remove")
    /\ LET key == AsString(retained.key) IN
          \E eraseOk \in BOOLEAN :
              LET ok == RemoveOk(store[key] # NvsAbsent, eraseOk) IN
                  /\ store' = IF store[key] # NvsAbsent /\ eraseOk
                              THEN [store EXCEPT ![key] = NvsAbsent]
                              ELSE store
                  /\ response' =
                        IF ok
                        THEN [NewResponse EXCEPT !.key = key,
                                                 !.removed = TRUE]
                        ELSE [NewResponse EXCEPT
                                !.key = key,
                                !.error =
                                  "Key not found or could not be removed"]
                  /\ opFailed' = ~ok
                  /\ mutated' = (store' # store)
                  /\ expected' = [expected EXCEPT
                                    ![key] = IF ok THEN "removed"
                                             ELSE "unknown"]
    /\ UNCHANGED <<devState, updateStarted, wakeupTimer>>

\* Mutant: an empty url is accepted.
UpdateUrlAccepted_EmptyAllowed(url) == IsString(url)

\* The update handler goes on to HttpUpdater::startUpdate.
UpdateUrlAccepted(url) == IsString(url) /\ url # ""

\* HttpUpdater::startUpdate(url, nvs) comes back to the handler.
StartUpdateReturns == TRUE

HandleUpdate ==
    /\ Deliver("update")
    /\ LET url == retained.url IN
          /\ updateStarted' = UpdateUrlAccepted(url)
          /\ response' =
                IF ~IsString(url)
                THEN [NewResponse EXCEPT
                        !.failure = "Command contains no URL"]
                ELSE IF ~UpdateUrlAccepted(url)
                THEN [NewResponse EXCEPT
                        !.failure = "Command contains empty url"]
                ELSE IF StartUpdateReturns
                THEN [NewResponse EXCEPT !.success = TRUE]
                ELSE EmptyResponse
          /\ opFailed' = ~UpdateUrlAccepted(url)
    /\ mutated' = FALSE
    /\ UNCHANGED <<devState, store, expected, wakeupTimer>>

\* The device starts again: after esp_restart, or when deep sleep ends.
Reboot ==
    /\ devState \in {"restarting", "sleeping"}
    /\ devState' = "running"
    /\ sessionSeen' = FALSE
    /\ wakeupTimer' = -1
    /\ UNCHANGED <<retained, store, response, lastCmd, handled, expected,
                   opFailed, mutated, updateStarted>>
    /\ UNCHANGED notCommands

---------------------------------------------------------------------------
(* The factory-reset switch (startDevice) and performFactoryReset *)

\* The thresholds of the onDisengaged callback, in milliseconds.
CompleteResetHold == 15000
WifiResetHold == 5000
TelemetryHold == 200

\* Values of event.timeSinceLastChange, in milliseconds.
Durations == {0, 199, 200, 4999, 5000, 14999, 15000, 16000}

\* Mutant: the lower bounds are exclusive.
AtLeast_Exclusive(d, hold) == d > hold

\* duration >= hold
AtLeast(d, hold) == d >= hold

\* The branch the onDisengaged callback takes.
SwitchTier(d) ==
    IF AtLeast(d, CompleteResetHold) THEN "completeReset"
    ELSE IF AtLeast(d, WifiResetHold) THEN "wifiReset"
    ELSE IF AtLeast(d, TelemetryHold) THEN "telemetry"
    ELSE "none"

\* performFactoryReset: esp_wifi_restore(), nvs_flash_erase() for a complete
\* reset, esp_restart().
WifiAfterReset(completeReset) == "erased"
StoreAfterReset(st, completeReset) == IF completeReset THEN EmptyStore ELSE st

SwitchDisengaged ==
    /\ devState = "running"
    /\ \E d \in Durations :
          LET tier == SwitchTier(d) IN
              /\ lastDuration' = d
              /\ switchAction' = tier
              /\ wifi' = IF tier \in {"completeReset", "wifiReset"}
                         THEN WifiAfterReset(tier = "completeReset")
                         ELSE wifi
              /\ store' = IF tier \in {"completeReset", "wifiReset"}
                          THEN StoreAfterReset(store, tier = "completeReset")
                          ELSE store
              /\ devState' = IF tier \in {"completeReset", "wifiReset"}
                             THEN "restarting"
                             ELSE devState
              /\ pending' = IF tier = "telemetry" THEN QueueOffer(pending)
                            ELSE pending
    /\ UNCHANGED <<retained, sessionSeen, response, lastCmd, handled,
                   expected, opFailed, mutated, updateStarted, wakeupTimer>>
    /\ UNCHANGED <<telPc, sinceWake, wait, wdState, wdElapsed, aborted,
                   iterTrace, completedTrace, cause, lastPeriod,
                   windowRequests, served, unservedAge, publishOk,
                   sinceSuccess>>
    /\ UNCHANGED <<bootVars, cfgVars, rsVars, settingsVars, nvsVars,
            otaVars>>

---------------------------------------------------------------------------
(* Specification of the configuration stores *)

BootIdle ==
    /\ builtInPeripheralsSettings = <<>>
    /\ peripheralsSettings = <<>>
    /\ functionsSettings = <<>>
    /\ timeSet = FALSE
    /\ networkReady = FALSE
    /\ rtcInSync = FALSE
    /\ kernelReady = FALSE
    /\ bootPc = "off"
    /\ idx = 1
    /\ initState = Success
    /\ peripheralInstances = <<>>
    /\ functionInstances = <<>>
    /\ peripheralsInitJson = <<>>
    /\ functionsInitJson = <<>>
    /\ telemetryStarted = FALSE
    /\ initPublished = <<>>
    /\ initDelivery = "none"
    /\ ntpPc = "notStarted"

InitConfig ==
    /\ kind \in {"file", "nvs"}
    /\ schema = Defaults
    /\ blob \in BackendContents
    /\ callbacks = <<>>
    /\ cfgPc = "new"
    /\ rawDoc = EmptyDoc
    /\ prevSchema = Defaults
    /\ invoked = <<>>
    /\ lastWrite = "none"
    /\ BootIdle
    /\ TelIdle
    /\ CmdIdle
    /\ SwIdle
    /\ RsIdle
    /\ NvsIdle
    /\ OtaIdle

NextConfig ==
    \/ ConstructFile
    \/ UpdateFile
    \/ OnUpdate
    \/ Reset
    \/ ConstructNvs
    \/ UpdateNvs

SpecConfig == InitConfig /\ [][NextConfig]_vars

\* Lives of a store in which every update's write succeeds, and restarts.
NextRestart ==
    \/ ConstructFile
    \/ ConstructNvs
    \/ UpdateFileAfterSuccess
    \/ UpdateNvsAfterSuccess
    \/ Restart

SpecRestart == InitConfig /\ [][NextRestart]_vars

\* ---- calls of withPreferences

InitNvsHandle ==
    /\ NvsIdle
    /\ OtaIdle
    /\ BootIdle
    /\ CfgIdle
    /\ TelIdle
    /\ CmdIdle
    /\ SwIdle
    /\ RsIdle

NextNvsHandle == WithPreferences

SpecNvsHandle == InitNvsHandle /\ [][NextNvsHandle]_vars

\* ---- runs of publish-ota-r2

InitOta ==
    /\ OtaIdle
    /\ NvsIdle
    /\ BootIdle
    /\ CfgIdle
    /\ TelIdle
    /\ CmdIdle
    /\ SwIdle
    /\ RsIdle

NextOta ==
    \/ StartRun
    \/ UploadArtifact
    \/ UploadBuildManifest
    \/ PruneOldBuilds
    \/ UploadAllManifests
    \/ UploadLatestManifest
    \/ RunFails

SpecOta == InitOta /\ [][NextOta]_vars

---------------------------------------------------------------------------
(* Boot: startDevice and the tasks it starts *)

\* esp_netif_sntp_sync_wait() results
SntpResults == {"ESP_OK", "ESP_ERR_NOT_FINISHED", "ESP_ERR_TIMEOUT", "ESP_FAIL"}

\* The built-in peripherals of the device definitions: none, one that is
\* created, one whose factory fails.
BuiltInPeripherals ==
    { <<>>,
      <<[type |-> "valve", name |-> "a", params |-> "good"]>>,
      <<[type |-> "valve", name |-> "b", params |-> "bad"]>> }

BootConfigs ==
    [builtIn : BuiltInPeripherals,
     peripherals : SeqsUpTo(PeripheralEntries, MaxEntries),
     functions : SeqsUpTo(FunctionEntries, MaxEntries)]

\* WiFiDriver reaches readiness (external collaborator).
NetworkUp ==
    /\ ~networkReady
    /\ networkReady' = StateSourceSet(networkReady)
    /\ UNCHANGED <<builtInPeripheralsSettings, peripheralsSettings,
                   functionsSettings, timeSet, rtcInSync, kernelReady,
                   bootPc, idx, initState, peripheralInstances,
                   functionInstances, peripheralsInitJson, functionsInitJson,
                   telemetryStarted, initPublished, initDelivery, ntpPc>>
    /\ UNCHANGED notBoot

\* ---- RtcDriver

\* Mutant: the constructor sets rtcInSync whatever the clock holds.
RtcInSyncAtConstruction_Always(isTimeSet, inSync) == StateSourceSet(inSync)

\* Mutant: the constructor leaves the gate to the ntp-sync task.
RtcInSyncAtConstruction_Never(isTimeSet, inSync) == inSync

\* The constructor's pre-set of rtcInSync.
RtcInSyncAtConstruction(isTimeSet, inSync) ==
    IF isTimeSet THEN StateSourceSet(inSync) ELSE inSync

\* updateTime(): success of an attempt.
UpdateTimeSuccess(ret) == ret \in {"ESP_OK", "ESP_ERR_NOT_FINISHED"}

\* Mutant: a failed attempt clears the gate.
RtcInSyncAfterUpdate_ClearOnFailure(ret, inSync) == UpdateTimeSuccess(ret)

\* updateTime(): rtcInSync afterwards.
RtcInSyncAfterUpdate(ret, inSync) ==
    IF UpdateTimeSuccess(ret) THEN StateSourceSet(inSync) ELSE inSync

\* Mutant: the task does not wait for the network.
NtpMayUpdate_NoWait == TRUE

\* The ntp-sync task may call updateTime().
NtpMayUpdate == AwaitSet(networkReady)

ntpFrame == <<builtInPeripheralsSettings, peripheralsSettings,
              functionsSettings, timeSet, networkReady, kernelReady, bootPc,
              idx, initState, peripheralInstances, functionInstances,
              peripheralsInitJson, functionsInitJson, telemetryStarted,
              initPublished, initDelivery>>

\* startDevice constructs the RtcDriver, which starts the ntp-sync task.
ConstructRtcDriver ==
    /\ bootPc = "constructRtc"
    /\ rtcInSync' = RtcInSyncAtConstruction(timeSet, rtcInSync)
    /\ ntpPc' = "awaitNetwork"
    /\ bootPc' = "awaitRtc"
    /\ UNCHANGED <<builtInPeripheralsSettings, peripheralsSettings,
                   functionsSettings, timeSet, networkReady, kernelReady,
                   idx, initState, peripheralInstances, functionInstances,
                   peripheralsInitJson, functionsInitJson, telemetryStarted,
                   initPublished, initDelivery>>
    /\ UNCHANGED notBoot

NtpAwaitNetwork ==
    /\ ntpPc = "awaitNetwork"
    /\ NtpMayUpdate
    /\ ntpPc' = "updateTime"
    /\ UNCHANGED <<ntpFrame, rtcInSync>>
    /\ UNCHANGED notBoot

\* Mutant: the task ends after a failed attempt.
NtpAfterFailure_GiveUp == "exited"

\* The ntp-sync task after updateTime() returned false: Task::delay(10s).
NtpAfterFailure == "retryDelay"

UpdateTime ==
    /\ ntpPc = "updateTime"
    /\ \E ret \in SntpResults :
          /\ rtcInSync' = RtcInSyncAfterUpdate(ret, rtcInSync)
          /\ ntpPc' = IF UpdateTimeSuccess(ret) THEN "hourDelay"
                      ELSE NtpAfterFailure
    /\ UNCHANGED ntpFrame
    /\ UNCHANGED notBoot

\* Task::delay(10s); continue
NtpRetryDelay ==
    /\ ntpPc = "retryDelay"
    /\ ntpPc' = "awaitNetwork"
    /\ UNCHANGED <<ntpFrame, rtcInSync>>
    /\ UNCHANGED notBoot

\* Task::delay(1h)
NtpHourDelay ==
    /\ ntpPc = "hourDelay"
    /\ ntpPc' = "awaitNetwork"
    /\ UNCHANGED <<ntpFrame, rtcInSync>>
    /\ UNCHANGED notBoot

\* ---- startDevice, from states->rtcInSync.awaitSet() on

inputVars == <<builtInPeripheralsSettings, peripheralsSettings,
               functionsSettings, timeSet>>

\* Mutant: population does not wait for the clock.
BootMayPopulate_NoWait == TRUE

\* The main task may pass states->rtcInSync.awaitSet().
BootMayPopulate == AwaitSet(rtcInSync)

\* Where the main task stands once the loops have reached position i of a
\* list: at that entry, or past the lists that are exhausted.
AtFunction(i) ==
    IF i <= Len(functionsSettings) THEN <<"functions", i>> ELSE <<"telemetry", 1>>

AtUserPeripheral(i) ==
    IF i <= Len(peripheralsSettings) THEN <<"peripherals", i>> ELSE AtFunction(1)

AtBuiltInPeripheral(i) ==
    IF i <= Len(builtInPeripheralsSettings) THEN <<"builtIn", i>>
    ELSE AtUserPeripheral(1)

BootAwaitRtc ==
    /\ bootPc = "awaitRtc"
    /\ BootMayPopulate
    /\ initState' = Success
    /\ bootPc' = AtBuiltInPeripheral(1)[1]
    /\ idx' = AtBuiltInPeripheral(1)[2]
    /\ UNCHANGED <<inputVars, networkReady, rtcInSync, kernelReady,
                   peripheralInstances, functionInstances,
                   peripheralsInitJson, functionsInitJson, telemetryStarted,
                   initPublished, initDelivery, ntpPc>>
    /\ UNCHANGED notBoot

\* Effects of PeripheralManager::createPeripheral on the manager and on
\* the accumulator.
CreatePeripheral(entry) ==
    LET reason == CreatePeripheralReason(entry) IN
    /\ peripheralInstances' =
          IF reason = "none" THEN Append(peripheralInstances, entry.name)
          ELSE peripheralInstances
    /\ peripheralsInitJson' = Append(peripheralsInitJson, Descriptor(entry, reason))

\* Effects of FunctionManager::createFunction.
CreateFunction(entry) ==
    LET reason == CreateFunctionReason(entry) IN
    /\ functionInstances' =
          IF reason = "none" THEN Append(functionInstances, entry.name)
          ELSE functionInstances
    /\ functionsInitJson' = Append(functionsInitJson, Descriptor(entry, reason))

\* Mutant: a failed peripheral is not recorded in the init state.
InitStateAfterPeripheral_Ignored(created, state) == state

\* if (!createPeripheral(...)) initState = InitState::PeripheralError;
InitStateAfterPeripheral(created, state) ==
    IF ~created THEN PeripheralError ELSE state

\* Mutant: a function that is created puts the state back to Success.
InitStateAfterFunction_ResetOnSuccess(created, state) ==
    IF ~created THEN FunctionError ELSE Success

\* if (!createFunction(...)) initState = InitState::FunctionError;
InitStateAfterFunction(created, state) ==
    IF ~created THEN FunctionError ELSE state

\* Mutant: the loop stops at the first entry that fails.
IdxAfterCreate_BreakOnFailure(i, created, n) == IF created THEN i + 1 ELSE n + 1

\* The range-for loops: the next position after an entry (n entries).
IdxAfterCreate(i, created, n) == i + 1

CreateBuiltInPeripheral ==
    /\ bootPc = "builtIn"
    /\ LET entry == builtInPeripheralsSettings[idx]
           created == CreatePeripheralReason(entry) = "none"
           next == AtBuiltInPeripheral(
                      IdxAfterCreate(idx, created, Len(builtInPeripheralsSettings)))
       IN  /\ CreatePeripheral(entry)
           /\ initState' = InitStateAfterPeripheral(created, initState)
           /\ bootPc' = next[1]
           /\ idx' = next[2]
    /\ UNCHANGED <<inputVars, networkReady, rtcInSync, kernelReady,
                   functionInstances, functionsInitJson, telemetryStarted,
                   initPublished, initDelivery, ntpPc>>
    /\ UNCHANGED notBoot

CreateUserPeripheral ==
    /\ bootPc = "peripherals"
    /\ LET entry == peripheralsSettings[idx]
           created == CreatePeripheralReason(entry) = "none"
           next == AtUserPeripheral(
                      IdxAfterCreate(idx, created, Len(peripheralsSettings)))
       IN  /\ CreatePeripheral(entry)
           /\ initState' = InitStateAfterPeripheral(created, initState)
           /\ bootPc' = next[1]
           /\ idx' = next[2]
    /\ UNCHANGED <<inputVars, networkReady, rtcInSync, kernelReady,
                   functionInstances, functionsInitJson, telemetryStarted,
                   initPublished, initDelivery, ntpPc>>
    /\ UNCHANGED notBoot

CreateUserFunction ==
    /\ bootPc = "functions"
    /\ LET entry == functionsSettings[idx]
           created == CreateFunctionReason(entry) = "none"
           next == AtFunction(
                      IdxAfterCreate(idx, created, Len(functionsSettings)))
       IN  /\ CreateFunction(entry)
           /\ initState' = InitStateAfterFunction(created, initState)
           /\ bootPc' = next[1]
           /\ idx' = next[2]
    /\ UNCHANGED <<inputVars, networkReady, rtcInSync, kernelReady,
                   peripheralInstances, peripheralsInitJson, telemetryStarted,
                   initPublished, initDelivery, ntpPc>>
    /\ UNCHANGED notBoot

\* initTelemetryPublishTask, setPowerSaveMode.
StartTelemetry ==
    /\ bootPc = "telemetry"
    /\ telemetryStarted' = TRUE
    /\ bootPc' = "publishInit"
    /\ UNCHANGED <<inputVars, networkReady, rtcInSync, kernelReady,
                   idx, initState, peripheralInstances, functionInstances,
                   peripheralsInitJson, functionsInitJson, initPublished,
                   initDelivery, ntpPc>>
    /\ UNCHANGED notBoot

\* Mutant: the functions array is left out of the init document.
InitDocument_NoFunctions ==
    [state |-> initState, peripherals |-> peripheralsInitJson,
     functions |-> <<>>]

\* The init document composed by the publish callback.
InitDocument ==
    [state |-> initState, peripherals |-> peripheralsInitJson,
     functions |-> functionsInitJson]

\* mqttRoot->publish("init", ..., Retention::NoRetain, QoS::AtLeastOnce, 5s)
PublishInit ==
    /\ bootPc = "publishInit"
    /\ initPublished' = Append(initPublished, InitDocument)
    /\ initDelivery' = "pending"
    /\ bootPc' = "awaitInit"
    /\ UNCHANGED <<inputVars, networkReady, rtcInSync, kernelReady,
                   idx, initState, peripheralInstances, functionInstances,
                   peripheralsInitJson, functionsInitJson, telemetryStarted,
                   ntpPc>>
    /\ UNCHANGED notBoot

\* The transport, which needs the network, confirms the publish within
\* the timeout.
InitConfirmed ==
    /\ bootPc = "awaitInit"
    /\ networkReady
    /\ initDelivery' = "confirmed"
    /\ bootPc' = "setKernelReady"
    /\ UNCHANGED <<inputVars, networkReady, rtcInSync, kernelReady,
                   idx, initState, peripheralInstances, functionInstances,
                   peripheralsInitJson, functionsInitJson, telemetryStarted,
                   initPublished, ntpPc>>
    /\ UNCHANGED notBoot

\* Mutant: the publish waits for the confirmation without a timeout.
InitTimeout_Never ==
    /\ FALSE
    /\ UNCHANGED vars

\* The 5s completion timeout elapses first.
InitTimeout ==
    /\ bootPc = "awaitInit"
    /\ initDelivery' = "timeout"
    /\ bootPc' = "setKernelReady"
    /\ UNCHANGED <<inputVars, networkReady, rtcInSync, kernelReady,
                   idx, initState, peripheralInstances, functionInstances,
                   peripheralsInitJson, functionsInitJson, telemetryStarted,
                   initPublished, ntpPc>>
    /\ UNCHANGED notBoot

\* states->kernelReady.set(); ... vTaskDelete(nullptr)
SetKernelReady ==
    /\ bootPc = "setKernelReady"
    /\ kernelReady' = StateSourceSet(kernelReady)
    /\ bootPc' = "done"
    /\ UNCHANGED <<inputVars, networkReady, rtcInSync, idx,
                   initState, peripheralInstances, functionInstances,
                   peripheralsInitJson, functionsInitJson, telemetryStarted,
                   initPublished, initDelivery, ntpPc>>
    /\ UNCHANGED notBoot

\* The main task's steps after the RtcDriver is constructed.
BootStep ==
    \/ BootAwaitRtc
    \/ CreateBuiltInPeripheral
    \/ CreateUserPeripheral
    \/ CreateUserFunction
    \/ StartTelemetry
    \/ PublishInit
    \/ InitConfirmed
    \/ InitTimeout
    \/ SetKernelReady

InitBoot ==
    /\ \E c \in BootConfigs :
          /\ builtInPeripheralsSettings = c.builtIn
          /\ peripheralsSettings = c.peripherals
          /\ functionsSettings = c.functions
    /\ timeSet \in BOOLEAN
    /\ networkReady = FALSE
    /\ rtcInSync = FALSE
    /\ kernelReady = FALSE
    /\ bootPc = "constructRtc"
    /\ idx = 1
    /\ initState = Success
    /\ peripheralInstances = <<>>
    /\ functionInstances = <<>>
    /\ peripheralsInitJson = <<>>
    /\ functionsInitJson = <<>>
    /\ telemetryStarted = FALSE
    /\ initPublished = <<>>
    /\ initDelivery = "none"
    /\ ntpPc = "notStarted"
    /\ CfgIdle
    /\ TelIdle
    /\ CmdIdle
    /\ SwIdle
    /\ RsIdle
    /\ NvsIdle
    /\ OtaIdle

NextBoot ==
    \/ NetworkUp
    \/ ConstructRtcDriver
    \/ NtpAwaitNetwork
    \/ UpdateTime
    \/ NtpRetryDelay
    \/ NtpHourDelay
    \/ BootAwaitRtc
    \/ CreateBuiltInPeripheral
    \/ CreateUserPeripheral
    \/ CreateUserFunction
    \/ StartTelemetry
    \/ PublishInit
    \/ InitConfirmed
    \/ InitTimeout
    \/ SetKernelReady

SpecBoot == InitBoot /\ [][NextBoot]_vars


\* The scheduler runs every ready task: the main task and the ntp-sync task
\* take a step they can take.
FairBoot ==
    /\ SpecBoot
    /\ WF_vars(BootStep)
    /\ WF_vars(NtpAwaitNetwork)

\* The scheduler runs the ntp-sync task, and its delays end.
FairNtp ==
    /\ SpecBoot
    /\ WF_vars(NtpAwaitNetwork)
    /\ WF_vars(NtpRetryDelay)
    /\ WF_vars(NtpHourDelay)

---------------------------------------------------------------------------
(* Telemetry: the specification *)

\* initWatchdog has armed the watchdog and the queue exists; the telemetry
\* task is started later, at the end of the boot.
InitTelemetry ==
    /\ watchdogTimeout = WatchdogTimeout
    /\ telPc = "notStarted"
    /\ sinceWake = 0
    /\ wait = 0
    /\ pending = 0
    /\ wdState = WatchdogStateAtCreation
    /\ wdElapsed = 0
    /\ aborted = FALSE
    /\ iterTrace = <<>>
    /\ completedTrace = <<>>
    /\ cause = "start"
    /\ lastPeriod = -1
    /\ windowRequests = 0
    /\ served = 0
    /\ unservedAge = -1
    /\ publishOk = TRUE
    /\ sinceSuccess = 0
    /\ BootIdle
    /\ CfgIdle
    /\ CmdIdle
    /\ SwIdle
    /\ RsIdle
    /\ NvsIdle
    /\ OtaIdle

TelemetryStep ==
    \/ PublishReturn
    \/ WatchdogRestart
    \/ DelayReturn
    \/ PollReceive
    \/ PollTimeout

NextTelemetry ==
    \/ TelemetryStart
    \/ PublishReturn
    \/ WatchdogRestart
    \/ DelayReturn
    \/ PollReceive
    \/ PollTimeout
    \/ RequestTelemetry
    \/ Tick
    \/ WatchdogExpire

SpecTelemetry == InitTelemetry /\ [][NextTelemetry]_vars

\* The scheduler runs the telemetry task when it can take a step, time
\* passes, and the watchdog's timer fires when it is due.
FairTelemetry ==
    /\ SpecTelemetry
    /\ WF_vars(TelemetryStep)
    /\ WF_vars(Tick)
    /\ WF_vars(WatchdogExpire)

\* A watchdog timeout longer than the publish interval and one publish.
LongWatchdogTimeout == PublishInterval + MaxPublish + 1

\* The telemetry task under the short and under the long watchdog timeout.
InitSteady ==
    /\ watchdogTimeout \in {WatchdogTimeout, LongWatchdogTimeout}
    /\ telPc = "notStarted"
    /\ sinceWake = 0
    /\ wait = 0
    /\ pending = 0
    /\ wdState = WatchdogStateAtCreation
    /\ wdElapsed = 0
    /\ aborted = FALSE
    /\ iterTrace = <<>>
    /\ completedTrace = <<>>
    /\ cause = "start"
    /\ lastPeriod = -1
    /\ windowRequests = 0
    /\ served = 0
    /\ unservedAge = -1
    /\ publishOk = TRUE
    /\ sinceSuccess = 0
    /\ BootIdle
    /\ CfgIdle
    /\ CmdIdle
    /\ SwIdle
    /\ RsIdle
    /\ NvsIdle
    /\ OtaIdle

SpecSteady == InitSteady /\ [][NextTelemetry]_vars

---------------------------------------------------------------------------
(* Specification of the boot under the watchdog *)

\* Boots with at most one user peripheral and one function.
SmallBootConfigs ==
    { c \in BootConfigs : Len(c.peripherals) <= 1 /\ Len(c.functions) <= 1 }

InitBootWatchdog ==
    /\ \E c \in SmallBootConfigs :
          /\ builtInPeripheralsSettings = c.builtIn
          /\ peripheralsSettings = c.peripherals
          /\ functionsSettings = c.functions
    /\ timeSet \in BOOLEAN
    /\ networkReady = FALSE
    /\ rtcInSync = FALSE
    /\ kernelReady = FALSE
    /\ bootPc = "constructRtc"
    /\ idx = 1
    /\ initState = Success
    /\ peripheralInstances = <<>>
    /\ functionInstances = <<>>
    /\ peripheralsInitJson = <<>>
    /\ functionsInitJson = <<>>
    /\ telemetryStarted = FALSE
    /\ initPublished = <<>>
    /\ initDelivery = "none"
    /\ ntpPc = "notStarted"
    /\ watchdogTimeout = WatchdogTimeout
    /\ telPc = "notStarted"
    /\ sinceWake = 0
    /\ wait = 0
    /\ pending = 0
    /\ wdState = WatchdogStateAtCreation
    /\ wdElapsed = 0
    /\ aborted = FALSE
    /\ iterTrace = <<>>
    /\ completedTrace = <<>>
    /\ cause = "start"
    /\ lastPeriod = -1
    /\ windowRequests = 0
    /\ served = 0
    /\ unservedAge = -1
    /\ publishOk = TRUE
    /\ sinceSuccess = 0
    /\ CfgIdle
    /\ CmdIdle
    /\ SwIdle
    /\ RsIdle
    /\ NvsIdle
    /\ OtaIdle

\* A step of the boot or of the ntp-sync task, while the process lives.
BootWhileAlive ==
    /\ Alive
    /\ NextBoot

\* The telemetry task exists once startDevice has called
\* initTelemetryPublishTask.
TelemetryStartAfterBoot ==
    /\ telemetryStarted
    /\ TelemetryStart

NextBootWatchdog ==
    \/ BootWhileAlive
    \/ TelemetryStartAfterBoot
    \/ PublishReturn
    \/ WatchdogRestart
    \/ DelayReturn
    \/ PollTimeout
    \/ Tick
    \/ WatchdogExpire

SpecBootWatchdog == InitBootWatchdog /\ [][NextBootWatchdog]_vars

---------------------------------------------------------------------------
(* Specification of the remote commands *)

InitCommands ==
    /\ retained = NoMessage
    /\ sessionSeen = FALSE
    /\ devState = "running"
    /\ store \in [StoreKeys -> StoreContents]
    /\ response = EmptyResponse
    /\ lastCmd = NoMessage
    /\ handled = 0
    /\ expected = [k \in StoreKeys |-> "unknown"]
    /\ opFailed = FALSE
    /\ mutated = FALSE
    /\ updateStarted = FALSE
    /\ wakeupTimer = -1
    /\ SwIdle
    /\ RsIdle
    /\ NvsIdle
    /\ OtaIdle
    /\ BootIdle
    /\ CfgIdle
    /\ TelIdle

NextCommands ==
    \/ PublishCommand
    \/ HandleRestart
    \/ HandleSleep
    \/ HandleNvsList
    \/ HandleNvsRead
    \/ HandleNvsWrite
    \/ HandleNvsRemove
    \/ HandleUpdate
    \/ Reboot

SpecCommands == InitCommands /\ [][NextCommands]_vars

---------------------------------------------------------------------------
(* Specification of the factory-reset switch *)

InitSwitch ==
    /\ retained = NoMessage
    /\ sessionSeen = FALSE
    /\ devState = "running"
    /\ store \in [StoreKeys -> StoreContents]
    /\ response = EmptyResponse
    /\ lastCmd = NoMessage
    /\ handled = 0
    /\ expected = [k \in StoreKeys |-> "unknown"]
    /\ opFailed = FALSE
    /\ mutated = FALSE
    /\ updateStarted = FALSE
    /\ wakeupTimer = -1
    /\ wifi \in {"stored", "erased"}
    /\ lastDuration = -1
    /\ switchAction = "none"
    /\ BootIdle
    /\ CfgIdle
    /\ TelIdle
    /\ RsIdle
    /\ NvsIdle
    /\ OtaIdle

NextSwitch ==
    \/ SwitchDisengaged
    \/ Reboot

SpecSwitch == InitSwitch /\ [][NextSwitch]_vars

---------------------------------------------------------------------------
(* Properties of the boot *)

\* Every peripheral entry of the boot pass, built-in first.
AllPeripheralsSettings == builtInPeripheralsSettings \o peripheralsSettings

PopulationDone ==
    bootPc \in {"telemetry", "publishInit", "awaitInit", "setKernelReady", "done"}

Failures(acc) == { i \in DOMAIN acc : ~acc[i].ok }

\* The accumulator describes the first Len(acc) entries, in input order.
DescribesPrefix(acc, entries) ==
    /\ Len(acc) <= Len(entries)
    /\ \A i \in DOMAIN acc :
          /\ acc[i].name = entries[i].name
          /\ acc[i].type = entries[i].type
          /\ acc[i].ok = (acc[i].reason = "none")

\* The names of the successful descriptors, in order.
CreatedNames(acc) ==
    LET ok == SelectSeq(acc, LAMBDA d : d.ok) IN
    [i \in DOMAIN ok |-> ok[i].name]

\* C1: once the boot pass is over, every one of the N entries has been
\* attempted: the accumulator holds N descriptors in input order, K of them
\* failures, and exactly the N-K successful entries exist as instances.
C1_PartialFailureBoot ==
    PopulationDone =>
        /\ Len(peripheralsInitJson) = Len(AllPeripheralsSettings)
        /\ DescribesPrefix(peripheralsInitJson, AllPeripheralsSettings)
        /\ peripheralInstances = CreatedNames(peripheralsInitJson)
        /\ Len(peripheralInstances)
             = Len(AllPeripheralsSettings) - Cardinality(Failures(peripheralsInitJson))
        /\ Len(functionsInitJson) = Len(functionsSettings)
        /\ DescribesPrefix(functionsInitJson, functionsSettings)
        /\ functionInstances = CreatedNames(functionsInitJson)
        /\ Len(functionInstances)
             = Len(functionsSettings) - Cardinality(Failures(functionsInitJson))

C1_Witness ==
    /\ bootPc = "done"
    /\ \E i, j, k \in DOMAIN peripheralsInitJson :
          /\ peripheralsInitJson[i].reason = "FactoryError"
          /\ peripheralsInitJson[k].ok
          /\ peripheralsInitJson[j].reason = "DuplicateName"
          /\ i < k
          /\ k < j
    /\ \E i \in DOMAIN functionsInitJson : i > 1 /\ ~functionsInitJson[i].ok
    /\ Len(functionInstances) = 1

\* C2: no entry is attempted before rtcInSync is set, built-in peripherals
\* are attempted before the user-configured ones, and no function is
\* attempted before every peripheral has been.
C2_BootOrdering ==
    /\ (Len(peripheralsInitJson) + Len(functionsInitJson) > 0) => rtcInSync
    /\ bootPc \in {"builtIn", "peripherals", "functions"} => rtcInSync
    /\ DescribesPrefix(peripheralsInitJson, AllPeripheralsSettings)
    /\ Len(functionsInitJson) > 0 =>
          Len(peripheralsInitJson) = Len(AllPeripheralsSettings)

C2_Witness ==
    /\ Len(functionsInitJson) = 1
    /\ Len(functionsSettings) = 2
    /\ Len(builtInPeripheralsSettings) = 1
    /\ Len(peripheralsSettings) = 2
    /\ ~timeSet

\* C3: kernelReady is set only after every entry was attempted and the init
\* document was handed to publish; the init document is published once per
\* boot and carries one descriptor per attempted entry.
C3_KernelReadyAfterInit ==
    /\ Len(initPublished) <= 1
    /\ kernelReady =>
          /\ Len(peripheralsInitJson) = Len(AllPeripheralsSettings)
          /\ Len(functionsInitJson) = Len(functionsSettings)
          /\ Len(initPublished) = 1
    /\ \A i \in DOMAIN initPublished :
          /\ Len(initPublished[i].peripherals) = Len(AllPeripheralsSettings)
          /\ Len(initPublished[i].functions) = Len(functionsSettings)
          /\ initPublished[i].peripherals = peripheralsInitJson
          /\ initPublished[i].functions = functionsInitJson

C3_Witness ==
    /\ kernelReady
    /\ Len(initPublished) = 1
    /\ Len(initPublished[1].peripherals) = 3
    /\ Len(initPublished[1].functions) = 2

\* C4: once rtcInSync is set, kernelReady is eventually set, whatever
\* entries fail and whether or not the init message is confirmed.
C4_BootLiveness == rtcInSync ~> kernelReady

C4_Witness ==
    /\ kernelReady
    /\ initDelivery = "timeout"
    /\ ~networkReady
    /\ Failures(peripheralsInitJson) # {}
    /\ Failures(functionsInitJson) # {}

\* C5 as stated: rtcInSync is set only after networkReady has been set.
C5_Original == rtcInSync => networkReady

\* C5, amended: rtcInSync is set only after networkReady has been set,
\* unless the clock already held a time when the RtcDriver was constructed;
\* every NTP attempt follows networkReady.
C5_RtcGatedOnNetwork ==
    /\ rtcInSync => (networkReady \/ timeSet)
    /\ ntpPc \in {"updateTime", "retryDelay", "hourDelay"} => networkReady

C5_Witness ==
    /\ rtcInSync
    /\ ~timeSet
    /\ networkReady
    /\ ntpPc = "hourDelay"

PeripheralFailed(doc) == Failures(doc.peripherals) # {}
FunctionFailed(doc) == Failures(doc.functions) # {}

\* An entry that cannot be created whatever was created before it.
Malformed(entry) ==
    \/ entry.type \notin PeripheralFactories
    \/ ~PeripheralFactoryOk(entry)

ReportsFailures(doc) ==
    \A i \in DOMAIN AllPeripheralsSettings :
        Malformed(AllPeripheralsSettings[i]) =>
            /\ i \in DOMAIN doc.peripherals
            /\ doc.peripherals[i].name = AllPeripheralsSettings[i].name
            /\ ~doc.peripherals[i].ok
            /\ doc.peripherals[i].reason # "none"

\* C6 as stated: a failed peripheral entry makes the init document's state
\* PeripheralError, and the entry is in the peripherals array with a reason.
C6_Original ==
    \A i \in DOMAIN initPublished :
        PeripheralFailed(initPublished[i]) =>
            /\ initPublished[i].state = PeripheralError
            /\ ReportsFailures(initPublished[i])

\* C6, amended: a failed peripheral entry makes the init document's state
\* PeripheralError when no function entry fails (FunctionError when one
\* does), and the entry is in the peripherals array with a reason.
C6_PeripheralErrorReported ==
    \A i \in DOMAIN initPublished :
        LET doc == initPublished[i] IN
        /\ ReportsFailures(doc)
        /\ PeripheralFailed(doc) =>
              doc.state = (IF FunctionFailed(doc) THEN FunctionError
                           ELSE PeripheralError)

C6_Witness ==
    /\ Len(initPublished) = 1
    /\ PeripheralFailed(initPublished[1])
    /\ ~FunctionFailed(initPublished[1])
    /\ Len(initPublished[1].functions) > 0
    /\ initPublished[1].state = PeripheralError

\* C7: a gate that is set stays set: no step of the constructor, of a
\* successful re-sync or of a failed NTP attempt unsets it.
C7_GatesAreLatches ==
    [][/\ rtcInSync => rtcInSync'
       /\ kernelReady => kernelReady'
       /\ networkReady => networkReady']_vars

C7_Witness ==
    /\ rtcInSync
    /\ timeSet
    /\ ntpPc = "retryDelay"
    /\ kernelReady

\* C8: a task waiting on a gate passes only once the gate is set, can pass
\* as soon as it is set, and does not stay blocked after the set.
C8_AwaitSet ==
    /\ [][(ntpPc = "awaitNetwork" /\ ntpPc' # "awaitNetwork") => networkReady]_vars
    /\ [][(bootPc = "awaitRtc" /\ bootPc' # "awaitRtc") => rtcInSync]_vars
    /\ (ntpPc = "awaitNetwork" /\ networkReady) ~> (ntpPc = "updateTime")
    /\ (bootPc = "awaitRtc" /\ rtcInSync) ~> (bootPc # "awaitRtc")

C8_Witness ==
    /\ ntpPc = "updateTime"
    /\ bootPc = "builtIn"
    /\ ~timeSet


\* C22: an attempt is made only with networkReady set; an attempt either
\* succeeds and sets rtcInSync, or fails and is followed, after the retry
\* delay, by another attempt; the task never ends, so with the network
\* ready attempts keep being made.
C22_NtpRetries ==
    /\ [](ntpPc = "updateTime" => networkReady)
    /\ [](ntpPc \in {"notStarted", "awaitNetwork", "updateTime",
                      "retryDelay", "hourDelay"})
    /\ [][ntpPc = "updateTime" /\ ntpPc' # "updateTime" =>
             \/ ntpPc' = "hourDelay" /\ rtcInSync'
             \/ ntpPc' = "retryDelay" /\ rtcInSync' = rtcInSync]_vars
    /\ [][ntpPc = "retryDelay" /\ ntpPc' # "retryDelay" =>
             ntpPc' = "awaitNetwork"]_vars
    /\ (ntpPc = "retryDelay") ~> (ntpPc = "updateTime")
    /\ (networkReady /\ ntpPc # "notStarted") ~> (ntpPc = "updateTime")

C22_Witness ==
    /\ ntpPc = "retryDelay"
    /\ networkReady
    /\ ~rtcInSync
    /\ bootPc = "awaitRtc"

\* C32: when the clock holds a time at the construction of the RtcDriver,
\* rtcInSync is set when the constructor returns, whatever networkReady is
\* and before the ntp-sync task has made an attempt.
C32_PreSetAtConstruction ==
    /\ [](timeSet /\ bootPc # "constructRtc" => rtcInSync)
    /\ [][(bootPc = "constructRtc" /\ bootPc' # "constructRtc" /\ timeSet) =>
             /\ rtcInSync'
             /\ ntpPc' = "awaitNetwork"
             /\ networkReady' = networkReady]_vars

C32_Witness ==
    /\ timeSet
    /\ rtcInSync
    /\ ~networkReady
    /\ ntpPc = "awaitNetwork"
    /\ bootPc = "done"

\* C33: the init state is Success exactly when every creation of the boot
\* pass so far succeeded, in the running pass and in the published
\* document; a state that is not Success never becomes Success again.
C33_SuccessIffAllCreated ==
    /\ [](initState = Success <=>
             /\ Failures(peripheralsInitJson) = {}
             /\ Failures(functionsInitJson) = {})
    /\ [](\A i \in DOMAIN initPublished :
             initPublished[i].state = Success <=>
                 /\ Failures(initPublished[i].peripherals) = {}
                 /\ Failures(initPublished[i].functions) = {})
    /\ [][initState # Success => initState' # Success]_vars

C33_Witness ==
    /\ Len(initPublished) = 1
    /\ Len(initPublished[1].peripherals) >= 2
    /\ ~initPublished[1].peripherals[1].ok
    /\ initPublished[1].peripherals[2].ok
    /\ Len(initPublished[1].functions) >= 1
    /\ Failures(initPublished[1].functions) = {}
    /\ initPublished[1].state = PeripheralError

---------------------------------------------------------------------------
(* Properties of the telemetry task and the watchdog *)

\* The calls of one iteration of the loop body, in the order they return.
FullIteration == <<"publish", "restart", "delay", "poll">>

IsPrefix(s, t) == Len(s) <= Len(t) /\ s = SubSeq(t, 1, Len(s))

\* C15: in every iteration of the telemetry loop the watchdog is restarted
\* exactly once, after the publish call has returned and before the task
\* waits in the debounce delay or in pollIn.
C15_WatchdogKickedOncePerCycle ==
    /\ IsPrefix(iterTrace, FullIteration)
    /\ completedTrace \in {<<>>, FullIteration}
    /\ telPc = "delay" => iterTrace = <<"publish", "restart">>
    /\ telPc = "poll" => iterTrace = <<"publish", "restart", "delay">>
    /\ Len(iterTrace) >= 2 => wdState = "Kicked" \/ aborted

C15_Witness ==
    /\ completedTrace = FullIteration
    /\ telPc = "poll"
    /\ wdState = "Kicked"
    /\ wdElapsed > 0
    /\ ~aborted

\* C16: two consecutive telemetry publications start at least the debounce
\* interval apart, whatever requests are made.
C16_Debounce ==
    lastPeriod >= 0 => lastPeriod >= DebounceInterval

C16_Witness ==
    /\ lastPeriod = DebounceInterval
    /\ cause = "request"
    /\ windowRequests > 0

\* C17: the request queue never holds more than one request; the requests
\* made since it was last polled empty are one item, and one pollIn takes
\* them all and begins one publication; the task does not poll within the
\* debounce window of a publication, so the requests of a window are taken
\* together.
C17_Coalescing ==
    /\ pending <= 1
    /\ pending = (IF windowRequests >= 1 THEN 1 ELSE 0)
    /\ cause = "request" => served >= 1
    /\ telPc = "poll" => sinceWake >= DebounceInterval

C17_Witness ==
    /\ cause = "request"
    /\ served >= 2
    /\ lastPeriod = DebounceInterval
    /\ telPc = "poll"
    /\ wait > 0
    /\ pending = 0
    /\ windowRequests = 0

\* C18: when pollIn times out (no request arrived), the iteration begins
\* exactly publishInterval after the one before.
C18_FixedCadence ==
    (cause = "timeout" /\ lastPeriod >= 0) => lastPeriod = PublishInterval

\* C19: a request is never dropped without a publication to follow: while
\* a request is unserved the queue holds an item, the publication starts
\* no later than the end of the running publish call and debounce delay,
\* and it does start unless the watchdog ends the process first.
C19_NoRequestLost ==
    /\ [](unservedAge >= 0 => pending >= 1)
    /\ [](unservedAge >= 0 /\ telPc # "notStarted" =>
             /\ unservedAge <= sinceWake
             /\ unservedAge <= Max(DebounceInterval, MaxPublish)
             /\ telPc = "poll" => ~TaskBlocked)
    /\ (unservedAge >= 0) ~> (unservedAge < 0 \/ aborted)

C19_Witness ==
    /\ telPc = "publish"
    /\ lastPeriod >= 0
    /\ unservedAge >= 1
    /\ windowRequests >= 2
    /\ pending = 1

\* C20: the process is aborted exactly when the watchdog timeout elapses
\* with no restart since the watchdog was armed or last restarted; a
\* restart resets the deadline; nothing follows the abort.
C20_Watchdog ==
    /\ [](aborted <=> wdState = "TimedOut")
    /\ [](aborted => wdElapsed >= WatchdogTimeout)
    /\ [](wdElapsed <= WatchdogTimeout)
    /\ [][wdElapsed >= WatchdogTimeout /\ ~aborted => aborted']_vars
    /\ [][telPc = "restart" /\ telPc' # "restart" =>
             wdElapsed' = 0 /\ wdState' = "Kicked"]_vars
    /\ [][wdElapsed' < wdElapsed => telPc = "restart"]_vars
    /\ [][~aborted]_vars

C20_Witness ==
    /\ aborted
    /\ wdState = "TimedOut"
    /\ completedTrace = FullIteration
    /\ telPc = "publish"

C37_WatchdogAbortsSlowBoot ==
    /\ [](bootPc \in {"constructRtc", "awaitRtc"} =>
             /\ wdState \in {"Armed", "TimedOut"}
             /\ telPc = "notStarted")
    /\ [](telPc # "notStarted" => telemetryStarted /\ PopulationDone)
    /\ [][(wdElapsed' < wdElapsed
              \/ (wdState # "Kicked" /\ wdState' = "Kicked")) =>
             /\ telPc = "restart"
             /\ telemetryStarted
             /\ PopulationDone]_vars
    /\ [][(~rtcInSync /\ wdElapsed >= watchdogTimeout /\ ~aborted) =>
             aborted']_vars
    /\ [][~aborted]_vars
    /\ []((aborted /\ ~rtcInSync) =>
             (~kernelReady /\ bootPc \in {"constructRtc", "awaitRtc"}))
    /\ [](kernelReady => rtcInSync)

C37_Witness ==
    /\ aborted
    /\ ~rtcInSync
    /\ networkReady
    /\ ntpPc = "retryDelay"
    /\ bootPc = "awaitRtc"
    /\ ~kernelReady
    /\ wdElapsed = watchdogTimeout

\* C38: with a watchdog timeout longer than the publish interval plus one
\* publish, a watchdog that the telemetry task has restarted once never
\* times out: each restart comes within the publish interval plus one
\* publish of the one before.
C38_SteadyState ==
    /\ []((watchdogTimeout > PublishInterval + MaxPublish
              /\ wdState = "Kicked") =>
                 /\ ~aborted
                 /\ wdElapsed <= PublishInterval + MaxPublish)
    /\ [][(watchdogTimeout > PublishInterval + MaxPublish
              /\ wdState = "Kicked") =>
                 wdState' = "Kicked"]_vars

C38_Witness ==
    /\ watchdogTimeout > PublishInterval + MaxPublish
    /\ wdState = "Kicked"
    /\ telPc = "restart"
    /\ wdElapsed > WatchdogTimeout
    /\ Len(completedTrace) = Len(FullIteration)

\* C39: withPreferences runs the action, and closes the handle, only for a
\* handle that nvs_open opened: after every failure of nvs_open the action
\* was not invoked, nothing was closed and an error was returned; after a
\* success the action ran, the handle was closed once and is open no more.
C39_ActionOnlyOnOpenedHandle ==
    nvsLast.called =>
        /\ (nvsLast.err # "ESP_OK" =>
                /\ ~nvsLast.actionInvoked
                /\ nvsLast.closes = 0
                /\ nvsLast.result # "ESP_OK")
        /\ (nvsLast.err = "ESP_OK" =>
                /\ nvsLast.opened
                /\ nvsLast.actionInvoked
                /\ nvsLast.closes = 1
                /\ nvsLast.handle \notin nvsOpen)

\* The manifests pruneOldBuilds took out of the list it was given.
PrunedAway ==
    { allManifests[i] : i \in 1..Len(allManifests) } \
        { prunedManifests[i] : i \in 1..Len(prunedManifests) }

\* C31: after a successful run all-manifests.json lists at most maxBuilds
\* builds, no build taken out of the list is more recent than one that is
\* listed, no object of a build taken out is left in the bucket, and the
\* pruning leaves the objects of the builds it keeps as they were.
C31_PruneKeepsMostRecent ==
    /\ [](otaPc = "done" =>
             /\ Len(r2AllManifests) <= maxBuilds
             /\ r2AllManifests = prunedManifests
             /\ \A i \in 1..Len(r2AllManifests) :
                   /\ \E j \in 1..Len(allManifests) :
                         allManifests[j] = r2AllManifests[i]
                   /\ \A r \in PrunedAway :
                         GetTime(r2AllManifests[i].date) >= GetTime(r.date)
             /\ \A r \in PrunedAway : ListPrefix(r2Objects, r.version) = {})
    /\ [][(otaPc = "prune" /\ otaPc' = "allManifests") =>
             \A i \in 1..Len(prunedManifests') :
                 ListPrefix(r2Objects', prunedManifests'[i].version) =
                     ListPrefix(r2Objects, prunedManifests'[i].version)]_vars

\* A successful run that pruned a build which was not the last of the
\* list, and kept a build whose objects are in the bucket.
C31_Witness ==
    /\ otaPc = "done"
    /\ maxBuilds >= 1
    /\ Len(r2AllManifests) = maxBuilds
    /\ Len(allManifests) > maxBuilds
    /\ \E i \in 1..Len(allManifests) :
          /\ allManifests[i] \in PrunedAway
          /\ \E j \in (i + 1)..Len(allManifests) :
                allManifests[j] \notin PrunedAway
    /\ \A i \in 1..Len(r2AllManifests) :
          Key(r2AllManifests[i].version, ManifestName) \in r2Objects

\* What a run does to the bucket after the removal of an earlier build of
\* the same version.
Uploads ==
    IF otaTrace # <<>> /\ Head(otaTrace) = "deleteExisting"
       THEN Tail(otaTrace) ELSE otaTrace

\* C40: a successful run uploaded the artifacts, then manifest.json, then
\* pruned, then uploaded all-manifests.json, then latest.json; and at its
\* end the version latest.json refers to is listed in all-manifests.json
\* and its manifest.json and artifacts are in the bucket.
C40_LatestIsPublished ==
    otaPc = "done" =>
        /\ Uploads = [i \in 1..Len(artifactFiles) |-> "artifact"] \o
                        <<ManifestName, "prune", "all-manifests.json",
                          "latest.json">>
        /\ \E i \in 1..Len(r2AllManifests) :
              r2AllManifests[i].version = r2Latest.version
        /\ Key(r2Latest.version, ManifestName) \in r2Objects
        /\ \A i \in 1..Len(r2Latest.files) :
              Key(r2Latest.version, r2Latest.files[i]) \in r2Objects

---------------------------------------------------------------------------
(* Properties of the configuration stores *)

\* C9: an update merges the document into the schema (also when the write
\* then fails), and an update that returns has invoked every registered
\* callback with the raw document, in registration order.
C9_UpdateMergesAndNotifies ==
    /\ cfgPc \in {"updated", "thrown"} /\ lastWrite # "none" =>
          schema = Load(prevSchema, rawDoc)
    /\ kind = "file" /\ cfgPc = "updated" =>
          invoked = [i \in DOMAIN callbacks |->
                        [cb |-> callbacks[i], doc |-> rawDoc]]

C9_Witness ==
    /\ kind = "file"
    /\ cfgPc = "updated"
    /\ Len(callbacks) = 3
    /\ callbacks[2] # callbacks[3]
    /\ prevSchema # Defaults
    /\ rawDoc["model"] = Absent
    /\ rawDoc["sleepWhenIdle"] = "x"
    /\ rawDoc["unknown"] = "x"
    /\ schema # Load(Defaults, rawDoc)

\* C10: after an update whose write succeeded, the backend holds the full
\* current schema.
C10_PersistsFullSchema ==
    (cfgPc = "updated" /\ lastWrite = "ok") =>
        blob = SerializeJson(StoreDoc(schema))

\* C11: a failed write is fatal for the file-backed store (update throws)
\* and not for the NVS-backed store: its update returns, the schema keeps
\* the merged values and the key keeps what it held.
C11_PersistenceFailure ==
    /\ [](lastWrite = "failed" /\ kind = "file" => cfgPc = "thrown")
    /\ [](lastWrite = "failed" /\ kind = "nvs" =>
             cfgPc = "updated" /\ schema = Load(prevSchema, rawDoc))
    /\ [][lastWrite' = "failed" /\ cfgPc \in {"constructed", "updated"}
             => blob' = blob]_vars

C11_Witness ==
    /\ kind = "nvs"
    /\ lastWrite = "failed"
    /\ cfgPc = "updated"
    /\ rawDoc["model"] = "x"
    /\ prevSchema["model"] = "d"
    /\ schema["model"] = "x"
    /\ blob.form = "absent"

\* C12: constructing an NVS-backed configuration always succeeds and never
\* writes; a key that is absent, unreadable, empty or not JSON leaves the
\* defaults, a key holding a document leaves it merged over the defaults.
C12_NvsConstruction ==
    [][kind = "nvs" /\ cfgPc = "new" /\ cfgPc' # "new" =>
          /\ cfgPc' = "constructed"
          /\ blob' = blob
          /\ blob.form # "json" => schema' = Defaults
          /\ blob.form = "json" => schema' = Load(Defaults, blob.doc)]_vars

C12_Witness ==
    /\ kind = "nvs"
    /\ cfgPc = "constructed"
    /\ blob.form = "corrupt"
    /\ schema = Defaults

\* C13: constructing a file-backed configuration succeeds with the defaults
\* for an absent or empty file, and throws for a file that cannot be read
\* or does not parse.
C13_FileConstruction ==
    [][kind = "file" /\ cfgPc = "new" /\ cfgPc' # "new" =>
          /\ blob.form \in {"absent", "empty"} =>
                cfgPc' = "constructed" /\ schema' = Defaults
          /\ blob.form \in {"unreadable", "corrupt"} => cfgPc' = "thrown"]_vars

C13_Witness ==
    /\ kind = "file"
    /\ cfgPc = "thrown"
    /\ lastWrite = "none"
    /\ blob.form = "corrupt"

\* C14: loading the stored document of a schema gives the schema back,
\* whatever the values before, and a load leaves every property that the
\* document does not have as it was.
C14_SchemaRoundTrip ==
    /\ \A s \in [Props -> PropValues] : Load(s, StoreDoc(schema)) = schema
    /\ cfgPc \in {"updated", "thrown"} /\ lastWrite # "none" =>
          \A p \in Props : rawDoc[p] = Absent => schema[p] = prevSchema[p]

C14_Witness ==
    /\ cfgPc = "updated"
    /\ rawDoc["model"] = Absent
    /\ rawDoc["sleepWhenIdle"] = "d"
    /\ prevSchema["model"] = "x"
    /\ prevSchema["sleepWhenIdle"] = "x"
    /\ schema["model"] = "x"
    /\ schema["sleepWhenIdle"] = "d"

\* C30: reset() puts the schema back to its defaults and nothing else: the
\* persisted contents, the record of the last write and the record of the
\* callbacks invoked are what they were before the call.
C30_ResetInMemoryOnly ==
    [][cfgPc' = "reset" =>
          /\ schema' = Defaults
          /\ blob' = blob
          /\ lastWrite' = lastWrite
          /\ invoked' = invoked
          /\ callbacks' = callbacks]_vars

C30_Witness ==
    /\ cfgPc = "reset"
    /\ kind = "file"
    /\ schema = Defaults
    /\ blob.form = "json"
    /\ blob.doc["model"] = "x"
    /\ Len(callbacks) >= 1

\* C34: a store constructed after a restart holds the schema the store held
\* before the restart, when every update before the restart succeeded.
C34_RestartKeepsSchema ==
    (beforeRestart.restarted /\ cfgPc = "constructed") =>
        schema = beforeRestart.schema

\* C35: the persist callback is the head of the callback list and nowhere
\* else in it, so an update runs it first; when it throws, no callback
\* after it has been invoked and the schema holds the merged values.
C35_PersistCallbackFirst ==
    /\ (kind = "file" /\ Live) =>
          /\ callbacks # <<>>
          /\ callbacks[1] = "persist"
          /\ \A i \in 2..Len(callbacks) : callbacks[i] # "persist"
    /\ (kind = "file" /\ lastWrite # "none") =>
          /\ invoked # <<>>
          /\ invoked[1] = [cb |-> "persist", doc |-> rawDoc]
    /\ (kind = "file" /\ lastWrite = "failed") =>
          /\ cfgPc = "thrown"
          /\ invoked = <<[cb |-> "persist", doc |-> rawDoc]>>
          /\ schema = Load(prevSchema, rawDoc)

C35_Witness ==
    /\ kind = "file"
    /\ cfgPc = "thrown"
    /\ lastWrite = "failed"
    /\ Len(callbacks) = 3
    /\ Len(invoked) = 1
    /\ schema # prevSchema

\* C36: the construction of a ConfigurationFile leaves the file as it was:
\* the update of the initial load invokes no callback, and the persist
\* callback is in the list only when the constructor returns.
C36_ConstructionNeverWrites ==
    [][(kind = "file" /\ cfgPc = "new" /\ cfgPc' # "new") =>
          /\ blob' = blob
          /\ lastWrite' = "none"
          /\ invoked' = <<>>
          /\ cfgPc' = "constructed" => callbacks' = <<"persist">>]_vars

C36_Witness ==
    /\ kind = "file"
    /\ cfgPc = "constructed"
    /\ blob.form = "json"
    /\ blob.doc["model"] = "x"
    /\ blob.doc["sleepWhenIdle"] = Absent
    /\ schema["model"] = "x"
    /\ callbacks = <<"persist">>
    /\ lastWrite = "none"

---------------------------------------------------------------------------
(* Properties of the remote commands *)

HasError(r) == r.error # Absent \/ r.failure # Absent

HasSuccess(r) == r.written \/ r.removed \/ r.success \/ r.value # Absent

\* C23: a published command is handed to a handler at most once, and once
\* it has been, the broker no longer retains it: a restart or sleep command
\* is not handled again when the device has started again.
C23_HandledAtMostOnce ==
    /\ handled <= 1
    /\ handled = 1 => retained = NoMessage
    /\ (lastCmd # NoMessage /\ ~sessionSeen) => retained = NoMessage

C23_Witness ==
    /\ lastCmd.name = "sleep"
    /\ devState = "running"
    /\ ~sessionSeen
    /\ handled = 1
    /\ retained = NoMessage

\* C24: an nvs/read of a key answers with the value of the last nvs/write
\* command for that key, when no nvs/write or nvs/remove of the key came in
\* between.
C24_WriteReadRoundTrip ==
    (lastCmd.name = "nvs/read"
        /\ expected[AsString(lastCmd.key)] \in CmdValues) =>
            response.value = expected[AsString(lastCmd.key)]

\* C25: a command whose operation failed answers with an error or failure
\* field and with no indication of success.
C25_FailuresAnswerWithError ==
    opFailed =>
        /\ response.published
        /\ HasError(response)
        /\ ~HasSuccess(response)

MalformedPayload(cmd) ==
    \/ cmd.name = "sleep" /\ ~cmd.duration.numeric
    \/ cmd.name \in {"nvs/read", "nvs/write", "nvs/remove"}
          /\ cmd.key = Missing

\* C26: a command with a malformed payload leaves the device running and
\* the store as it was, and answers with an error.
C26_MalformedPayloadFails ==
    MalformedPayload(lastCmd) =>
        /\ devState = "running"
        /\ wakeupTimer = -1
        /\ ~mutated
        /\ response.published
        /\ HasError(response)

\* C27: the update command answers success = true and starts the update
\* exactly when the url is a non-empty string; otherwise it answers with a
\* failure field and starts no update.
C27_UpdateNeedsUrl ==
    lastCmd.name = "update" =>
        /\ response.published
        /\ response.success <=> lastCmd.url \notin {Missing, NotAString, ""}
        /\ updateStarted <=> response.success
        /\ response.success <=> response.failure = Absent

C27_Witness ==
    /\ lastCmd.name = "update"
    /\ lastCmd.url = "u"
    /\ response.success
    /\ updateStarted

\* C28: nvs/remove answers removed = true exactly when the key was in the
\* store and the command erased it, and answers with an error and leaves
\* the store alone otherwise; after a remove that answered removed, and
\* until the next nvs/write of the key, nvs/read of the key answers with an
\* error and no value, and nvs/list does not have the key.
C28_Remove ==
    /\ [][(lastCmd = NoMessage /\ lastCmd'.name = "nvs/remove") =>
             LET key == AsString(retained.key) IN
                 /\ response'.removed <=>
                        (store[key] # NvsAbsent /\ store'[key] = NvsAbsent)
                 /\ response'.removed <=> response'.error = Absent
                 /\ ~response'.removed => store' = store
                 /\ \A k \in StoreKeys \ {key} : store'[k] = store[k]]_vars
    /\ []((lastCmd.name = "nvs/read"
              /\ expected[AsString(lastCmd.key)] = "removed") =>
                 /\ response.error # Absent
                 /\ response.value = Absent)
    /\ [](lastCmd.name = "nvs/list" =>
             /\ response.listed
             /\ \A k \in StoreKeys :
                    expected[k] = "removed" => k \notin response.entries)

C28_Witness ==
    /\ lastCmd.name = "nvs/list"
    /\ expected["k1"] = "removed"
    /\ response.entries = {"k2"}

---------------------------------------------------------------------------
(* Properties of the factory-reset switch *)

\* C29: a disengage event does what its duration says, with inclusive lower
\* bounds: from 15 s a complete reset (WiFi credentials and the NVS entries
\* erased, restart), from 5 s a WiFi reset (the NVS entries kept, restart),
\* from 200 ms one telemetry request, below that nothing.
C29_SwitchTiering ==
    /\ [](switchAction =
             IF lastDuration >= 15000 THEN "completeReset"
             ELSE IF lastDuration >= 5000 THEN "wifiReset"
             ELSE IF lastDuration >= 200 THEN "telemetry"
             ELSE "none")
    /\ [][devState = "running" =>
             /\ switchAction' = "completeReset" =>
                    /\ wifi' = "erased"
                    /\ store' = EmptyStore
                    /\ devState' = "restarting"
                    /\ pending' = pending
             /\ switchAction' = "wifiReset" =>
                    /\ wifi' = "erased"
                    /\ store' = store
                    /\ devState' = "restarting"
                    /\ pending' = pending
             /\ switchAction' = "telemetry" =>
                    /\ wifi' = wifi
                    /\ store' = store
                    /\ devState' = "running"
                    /\ pending' = 1
             /\ switchAction' = "none" =>
                    /\ wifi' = wifi
                    /\ store' = store
                    /\ devState' = "running"
                    /\ pending' = pending]_vars

C29_Witness ==
    /\ lastDuration = 5000
    /\ switchAction = "wifiReset"
    /\ wifi = "erased"
    /\ store["k1"] # NvsAbsent
    /\ devState = "restarting"

=============================================================================
